---- MODULE Spec2Model ----
(***************************************************************************)
(* A model of obelisk-manager's manifest core: the entry diff              *)
(* (commits.py), manifest_match and the manifest codec (manifest.py), the  *)
(* folder scanner and file filter (scanner.py, filtering.py), the          *)
(* structured-file extractor (filetypes/json.py), the commands             *)
(* (commands/, git.py) and the JSON printer (json_utils.py).               *)
(*                                                                         *)
(* Representation.                                                         *)
(*  - A Python str that the code inspects character by character (a file   *)
(*    name) is a sequence of one-character strings.                        *)
(*  - An optional value is <<>> for None and <<x>> for x.                  *)
(*  - A parsed JSON value is a record [t, s, n, o]: t is the Python type   *)
(*    ("null", "str", "int", "list", "dict"), s the text of a str, n the   *)
(*    value of an int, o the items of a dict (a sequence of [k, v] in      *)
(*    insertion order) or of a list (k = "").                              *)
(*  - A str of several lines (a change list, a commit message) is the      *)
(*    sequence of its lines, as str.split('\n') gives them: '' is the one   *)
(*    empty line.                                                          *)
(***************************************************************************)
EXTENDS Integers, Sequences, FiniteSets, TLC

VARIABLES
    pc,         \* which component runs, and how far it got
    before,     \* diff: the before entry list
    after,      \* diff: the after entry list
    changes,    \* diff: the _ChangeSets returned by _diff_entries
    matched,    \* diff: the result of manifest_match(before, after), <<>> before the call
    entries,    \* codec: the entry list handed to write_manifest
    disk,       \* codec: the manifest document on disk, <<>> when there is none
    parsed,     \* codec: the list returned by parse_manifest, <<>> before the call
    folder,     \* scanner: the children of the scanned folder
    scans,      \* scanner: the entry lists returned by the scans so far, oldest first
    allowed,    \* filter: the (allowed, filtered) partition of the folder's files
    docs,       \* extractor: the parsed content of the structured files; printer: the value
    extracted,  \* extractor: what get_metadata_from_json returned for each, <<>> before the call
    rendered,   \* renderer, printer: the text returned, <<>> before the call
    message,    \* renderer: the call of build_commit_message and what it gave, <<>> before the call
    inputs,     \* commands: the files named on the command line
    options,    \* commands: the flags of the command line; printer: the keyword arguments
    repo,       \* commands: the Git repository: HEAD, origin/main, the commits made and pushed
    runs        \* commands: what each run of the command did, oldest first

vars == <<pc, before, after, changes, matched, entries, disk, parsed,
          folder, scans, allowed, docs, extracted, rendered, message,
          inputs, options, repo, runs>>

-----------------------------------------------------------------------------
(* Bounds of the model. *)

\* Longest entry list handed to the diff and to manifest_match.
MaxEntries == 2

\* Longest entry list handed to write_manifest.
MaxCodecEntries == 3

\* Most children in the scanned folder.
MaxChildren == 3

\* Most top-level keys besides 'version' in a structured file.
MaxKeys == 2

\* Most scans of the folder in one run.
MaxScans == 2

\* Most files that differ between the two lists handed to the renderer.
MaxRenderEntries == 3
MaxRuns == 2

-----------------------------------------------------------------------------
(* Python values. *)

None == <<>>
Some(x) == <<x>>

\* bool(s) of an optional str: None and '' are falsy.
Truthy(s) == s # None /\ s[1] # ""

JNull == [t |-> "null", s |-> "", n |-> 0, o |-> <<>>]
JStr(x) == [t |-> "str", s |-> x, n |-> 0, o |-> <<>>]
JInt(x) == [t |-> "int", s |-> "", n |-> x, o |-> <<>>]
JList(items) == [t |-> "list", s |-> "", n |-> 0, o |-> items]
JDict(items) == [t |-> "dict", s |-> "", n |-> 0, o |-> items]
KV(key, val) == [k |-> key, v |-> val]

Range(s) == {s[i] : i \in DOMAIN s}

\* dict.get(key): <<>> when the key is absent.
DictGet(items, key) ==
    IF \E i \in DOMAIN items : items[i].k = key
    THEN Some((CHOOSE p \in Range(items) : p.k = key).v)
    ELSE None

\* Python's == on parsed JSON values: dicts compare as mappings (the order of
\* the keys does not count), lists item by item.
RECURSIVE ValEq(_, _)
ValEq(x, y) ==
    /\ x.t = y.t
    /\ CASE x.t = "null" -> TRUE
         [] x.t = "str" -> x.s = y.s
         [] x.t = "int" -> x.n = y.n
         [] x.t = "list" ->
                /\ Len(x.o) = Len(y.o)
                /\ \A i \in DOMAIN x.o : ValEq(x.o[i].v, y.o[i].v)
         [] OTHER ->
                /\ {p.k : p \in Range(x.o)} = {p.k : p \in Range(y.o)}
                /\ \A p \in Range(x.o) : \A q \in Range(y.o) :
                        p.k = q.k => ValEq(p.v, q.v)

\* == on two optional dicts (the mod and metadata fields).
OptDictEq(x, y) ==
    \/ x = None /\ y = None
    \/ x # None /\ y # None /\ ValEq(JDict(x[1]), JDict(y[1]))

-----------------------------------------------------------------------------
(* File names and their order. *)

\* ord(c).
Ord(c) ==
    CASE c = " " -> 32 [] c = "$" -> 36 [] c = "(" -> 40 [] c = ")" -> 41
      [] c = "*" -> 42 [] c = "+" -> 43 [] c = "-" -> 45
      [] c = "." -> 46 [] c = "0" -> 48 [] c = "1" -> 49 [] c = "2" -> 50
      [] c = "3" -> 51 [] c = ":" -> 58
      [] c = "A" -> 65 [] c = "B" -> 66 [] c = "G" -> 71 [] c = "J" -> 74
      [] c = "N" -> 78 [] c = "O" -> 79 [] c = "P" -> 80 [] c = "S" -> 83
      [] c = "_" -> 95
      [] c = "a" -> 97 [] c = "b" -> 98 [] c = "c" -> 99 [] c = "d" -> 100
      [] c = "f" -> 102 [] c = "g" -> 103 [] c = "i" -> 105 [] c = "j" -> 106
      [] c = "n" -> 110 [] c = "o" -> 111 [] c = "p" -> 112 [] c = "s" -> 115
      [] c = "u" -> 117 [] c = "x" -> 120
      [] c = "F" -> 70 [] c = "R" -> 82 [] c = "U" -> 85
      [] c = "e" -> 101 [] c = "m" -> 109
      [] c = "r" -> 114 [] c = "t" -> 116 [] c = "v" -> 118 [] c = "~" -> 126

\* str < str: the first differing character decides, a proper prefix is smaller.
RECURSIVE StrLess(_, _)
StrLess(x, y) ==
    IF y = <<>> THEN FALSE
    ELSE IF x = <<>> THEN TRUE
    ELSE IF Head(x) = Head(y) THEN StrLess(Tail(x), Tail(y))
    ELSE Ord(Head(x)) < Ord(Head(y))

-----------------------------------------------------------------------------
(* manifest.py: ManifestEntry and manifest_match. *)

ManifestEntry(fn, ver, h, fmt, md, meta) ==
    [filename |-> fn, version |-> ver, hash |-> h, format |-> fmt,
     mod |-> md, metadata |-> meta]

\* ManifestEntry.__eq__ (pydantic): every field equal.
EntryEq(a, b) ==
    /\ a.filename = b.filename
    /\ a.version = b.version
    /\ a.hash = b.hash
    /\ a.format = b.format
    /\ OptDictEq(a.mod, b.mod)
    /\ OptDictEq(a.metadata, b.metadata)

\* A manifest_match that accepts a list that is the start of the other.
manifest_match_prefix(a, b) ==
    /\ Len(a) <= Len(b)
    /\ \A i \in DOMAIN a : EntryEq(a[i], b[i])

\* A manifest_match that zips to the shorter list instead of comparing lengths.
manifest_match_nolen(a, b) ==
    \A i \in DOMAIN a \cap DOMAIN b : EntryEq(a[i], b[i])

manifest_match(a, b) ==
    IF Len(a) # Len(b) THEN FALSE
    ELSE \A i \in DOMAIN a : EntryEq(a[i], b[i])

-----------------------------------------------------------------------------
(* commits.py: _diff_entries. *)

\* {e.filename: e for e in list}: a key keeps the place of its first entry and
\* the value of its last.
RECURSIVE EntryMap(_)
EntryMap(list) ==
    IF list = <<>> THEN <<>>
    ELSE LET m == EntryMap(SubSeq(list, 1, Len(list) - 1))
             e == list[Len(list)]
         IN  IF \E i \in DOMAIN m : m[i].filename = e.filename
             THEN [i \in DOMAIN m |-> IF m[i].filename = e.filename THEN e ELSE m[i]]
             ELSE Append(m, e)

\* map.get(fname): <<>> when the name is not a key.
MapGet(m, fname) ==
    IF \E i \in DOMAIN m : m[i].filename = fname
    THEN Some(CHOOSE e \in Range(m) : e.filename = fname)
    ELSE None

_ChangeSets(a, r, u) == [added |-> a, removed |-> r, updated |-> u]

\* A _diff_entries that reports a pair as updated only when the versions differ.
_diff_entries_version_only(bf, af) ==
    LET before_map == EntryMap(bf)
        after_map == EntryMap(af)
        IsAdded(e) == MapGet(before_map, e.filename) = None
        IsRemoved(e) == MapGet(after_map, e.filename) = None
        Upd[i \in 0..Len(after_map)] ==
            IF i = 0 THEN <<>>
            ELSE LET a_entry == after_map[i]
                     b_entry == MapGet(before_map, a_entry.filename)
                 IN  IF b_entry # None /\ b_entry[1].version # a_entry.version
                     THEN Append(Upd[i - 1], <<b_entry[1], a_entry>>)
                     ELSE Upd[i - 1]
    IN  _ChangeSets(SelectSeq(after_map, IsAdded),
                    SelectSeq(before_map, IsRemoved),
                    Upd[Len(after_map)])

_diff_entries(bf, af) ==
    LET before_map == EntryMap(bf)
        after_map == EntryMap(af)
        IsAdded(e) == MapGet(before_map, e.filename) = None
        IsRemoved(e) == MapGet(after_map, e.filename) = None
        Upd[i \in 0..Len(after_map)] ==
            IF i = 0 THEN <<>>
            ELSE LET a_entry == after_map[i]
                     b_entry == MapGet(before_map, a_entry.filename)
                 IN  IF b_entry # None /\ ~EntryEq(b_entry[1], a_entry)
                     THEN Append(Upd[i - 1], <<b_entry[1], a_entry>>)
                     ELSE Upd[i - 1]
    IN  _ChangeSets(SelectSeq(after_map, IsAdded),
                    SelectSeq(before_map, IsRemoved),
                    Upd[Len(after_map)])

-----------------------------------------------------------------------------
(* The diff component: _diff_entries and manifest_match applied to two entry *)
(* lists.  The lists are the results of two scans of a folder, so a file     *)
(* name occurs at most once in each; their order is the order the scan       *)
(* produced.                                                                 *)

Name_a_json == <<"a", ".", "j", "s", "o", "n">>
Name_b_json == <<"b", ".", "j", "s", "o", "n">>
Name_c_png  == <<"c", ".", "p", "n", "g">>
Name_d_json == <<"d", ".", "j", "s", "o", "n">>

DiffNames == {Name_a_json, Name_b_json, Name_c_png}

Hash(alg, digest, len) == [alg |-> alg, digest |-> digest, len |-> len]

ModA == <<KV("id", JStr("m1")), KV("x", JInt(1))>>
ModB == <<KV("x", JInt(1)), KV("id", JStr("m1"))>>  \* ModA, keys in the other order

\* The states an entry of the given name can be in.
DiffVariants(fn) ==
    {ManifestEntry(fn, Some("1"), Some(Hash("md5json", <<"h1">>, 2)), None, None, None),
     ManifestEntry(fn, Some("2"), Some(Hash("md5json", <<"h1">>, 2)), None, None, None)}
    \cup
    (IF fn = Name_a_json
     THEN {ManifestEntry(fn, Some("1"), Some(Hash("md5json", <<"h1">>, 2)), None, Some(ModA), None),
           ManifestEntry(fn, Some("1"), Some(Hash("md5json", <<"h1">>, 2)), None, Some(ModB), None)}
     ELSE {})

\* All sequences of at most n elements of S.
RECURSIVE SeqsUpTo(_, _)
SeqsUpTo(S, n) ==
    IF n = 0 THEN {<<>>}
    ELSE LET shorter == SeqsUpTo(S, n - 1)
         IN  shorter \cup {Append(q, x) : q \in shorter, x \in S}

NamesOf(list) == {list[i].filename : i \in DOMAIN list}

UniqueNames(list) == Cardinality(NamesOf(list)) = Len(list)

\* Entry lists of at most n of the entries in E, a name at most once.
EntryLists(E, n) == {q \in SeqsUpTo(E, n) : UniqueNames(q)}

DiffLists == EntryLists(UNION {DiffVariants(fn) : fn \in DiffNames}, MaxEntries)

DiffVars == <<before, after, changes, matched>>
CodecVars == <<entries, disk, parsed>>
ScanVars == <<folder, scans, allowed>>
JsonVars == <<docs, extracted>>
RenderVars == <<rendered, message>>
CmdVars == <<inputs, options, repo, runs>>

InitDiff ==
    /\ pc = "diff"
    /\ before \in DiffLists
    /\ after \in DiffLists
    /\ changes = None /\ matched = None
    /\ entries = <<>> /\ disk = None /\ parsed = None
    /\ folder = {} /\ scans = <<>> /\ allowed = None
    /\ rendered = None /\ message = None
    /\ inputs = {} /\ options = None /\ repo = None /\ runs = <<>>
    /\ docs = <<>> /\ extracted = <<>>

\* changes = _diff_entries(before, after)
DiffEntries ==
    /\ pc = "diff"
    /\ changes = None
    /\ changes' = Some(_diff_entries(before, after))
    /\ UNCHANGED <<CmdVars, RenderVars, pc, before, after, matched, CodecVars, ScanVars, JsonVars>>

\* matched = manifest_match(before, after)
ManifestMatch ==
    /\ pc = "diff"
    /\ matched = None
    /\ matched' = Some(manifest_match(before, after))
    /\ UNCHANGED <<CmdVars, RenderVars, pc, before, after, changes, CodecVars, ScanVars, JsonVars>>

NextDiff == DiffEntries \/ ManifestMatch

SpecDiff == InitDiff /\ [][NextDiff]_vars

-----------------------------------------------------------------------------
(* Claims about the diff. *)

EntryNamed(list, fn) == CHOOSE e \in Range(list) : e.filename = fn

\* Two entries equal field for field.
SameFields(x, y) ==
    /\ x.filename = y.filename /\ x.version = y.version
    /\ x.hash = y.hash /\ x.format = y.format
    /\ (x.mod = None) = (y.mod = None)
    /\ (x.mod # None => {<<p.k, p.v>> : p \in Range(x.mod[1])} = {<<p.k, p.v>> : p \in Range(y.mod[1])})
    /\ (x.metadata = None) = (y.metadata = None)
    /\ (x.metadata # None =>
            {<<p.k, p.v>> : p \in Range(x.metadata[1])} = {<<p.k, p.v>> : p \in Range(y.metadata[1])})

AddedNames == NamesOf(changes[1].added)
RemovedNames == NamesOf(changes[1].removed)
UpdatedNames == {changes[1].updated[i][2].filename : i \in DOMAIN changes[1].updated}

\* C1: once _diff_entries has run on two lists with unique file names, a name
\* is in added iff it is in after and not in before, in removed iff it is in
\* before and not in after, in updated iff it is in both and the two entries
\* are not equal field for field (the pair holding the before and the after
\* entry); each bucket lists a name once and no name is in two buckets.
C1_DiffBuckets ==
    (pc = "diff" /\ changes # None) =>
        /\ \A fn \in DiffNames :
            /\ fn \in AddedNames <=> (fn \in NamesOf(after) /\ fn \notin NamesOf(before))
            /\ fn \in RemovedNames <=> (fn \in NamesOf(before) /\ fn \notin NamesOf(after))
            /\ fn \in UpdatedNames <=>
                    /\ fn \in NamesOf(before) /\ fn \in NamesOf(after)
                    /\ ~SameFields(EntryNamed(before, fn), EntryNamed(after, fn))
        /\ \A i \in DOMAIN changes[1].updated :
            /\ changes[1].updated[i][1] = EntryNamed(before, changes[1].updated[i][2].filename)
            /\ changes[1].updated[i][2] = EntryNamed(after, changes[1].updated[i][2].filename)
        /\ Range(changes[1].added) \subseteq Range(after)
        /\ Range(changes[1].removed) \subseteq Range(before)
        /\ Cardinality(AddedNames) = Len(changes[1].added)
        /\ Cardinality(RemovedNames) = Len(changes[1].removed)
        /\ Cardinality(UpdatedNames) = Len(changes[1].updated)
        /\ AddedNames \cap RemovedNames = {}
        /\ AddedNames \cap UpdatedNames = {}
        /\ RemovedNames \cap UpdatedNames = {}

\* The diff has filled all three buckets at once.
C1_Witness ==
    /\ pc = "diff" /\ changes # None
    /\ changes[1].added # <<>> /\ changes[1].removed # <<>> /\ changes[1].updated # <<>>

\* A list sorted by file name (ordinal order), names unique.
SortedByName(list) ==
    \A i \in DOMAIN list : \A j \in DOMAIN list :
        i < j => StrLess(list[i].filename, list[j].filename)

-----------------------------------------------------------------------------
(* manifest.py: the codec.  The manifest on disk is modelled as the JSON     *)
(* document that save_as_json writes and model_validate_json reads back: a   *)
(* top-level format and the files mapping in insertion order.  A key that    *)
(* model_dump(exclude_none=True) leaves out is None in the record, which is  *)
(* also what the validator gives a key that is absent.                       *)

RawManifestEntry(ver, h, fmt, md, meta) ==
    [version |-> ver, hash |-> h, format |-> fmt, mod |-> md, metadata |-> meta]

ManifestFile(fmt, files) == [version |-> None, format |-> fmt, files |-> files]

\* Counter(entry.format for entry in entries if entry.format): the counts in
\* the order the formats were first met.
RECURSIVE FormatCounts(_)
FormatCounts(list) ==
    IF list = <<>> THEN <<>>
    ELSE LET c == FormatCounts(SubSeq(list, 1, Len(list) - 1))
             e == list[Len(list)]
         IN  IF ~Truthy(e.format) THEN c
             ELSE IF \E i \in DOMAIN c : c[i].fmt = e.format[1]
             THEN [i \in DOMAIN c |->
                      IF c[i].fmt = e.format[1] THEN [c[i] EXCEPT !.n = @ + 1] ELSE c[i]]
             ELSE Append(c, [fmt |-> e.format[1], n |-> 1])

\* A most_common(1) that keeps the last of the formats with the highest count.
MostCommonLast(counts) ==
    IF counts = <<>> THEN <<>>
    ELSE LET best == CHOOSE i \in DOMAIN counts :
                        /\ \A j \in DOMAIN counts : counts[j].n <= counts[i].n
                        /\ \A j \in DOMAIN counts : counts[j].n = counts[i].n => j <= i
         IN  <<counts[best]>>

\* Counter.most_common(1): max() over the items, which keeps the first of the
\* items with the highest count; [] for an empty counter.
MostCommon(counts) ==
    IF counts = <<>> THEN <<>>
    ELSE LET best == CHOOSE i \in DOMAIN counts :
                        /\ \A j \in DOMAIN counts : counts[j].n <= counts[i].n
                        /\ \A j \in DOMAIN counts : counts[j].n = counts[i].n => i <= j
         IN  <<counts[best]>>

\* file_data.files[entry.filename] = raw_entry, entry by entry.
RECURSIVE FilesOf(_, _)
FilesOf(list, global_format) ==
    IF list = <<>> THEN <<>>
    ELSE LET m == FilesOf(SubSeq(list, 1, Len(list) - 1), global_format)
             e == list[Len(list)]
             raw_entry == RawManifestEntry(e.version, e.hash,
                              IF e.format # global_format THEN e.format ELSE None,
                              e.mod, e.metadata)
             item == [name |-> e.filename, rec |-> raw_entry]
         IN  IF \E i \in DOMAIN m : m[i].name = e.filename
             THEN [i \in DOMAIN m |-> IF m[i].name = e.filename THEN item ELSE m[i]]
             ELSE Append(m, item)

\* The document write_manifest(path, entries) leaves at path.
write_manifest(list) ==
    LET most_common == MostCommon(FormatCounts(list))
        global_format == IF most_common # <<>> THEN Some(most_common[1].fmt) ELSE None
    IN  ManifestFile(global_format, FilesOf(list, global_format))

\* list.sort(key=attrgetter('filename')): a stable sort by file name.
RECURSIVE SortByName(_)
SortByName(list) ==
    IF list = <<>> THEN <<>>
    ELSE LET sorted == SortByName(SubSeq(list, 1, Len(list) - 1))
             e == list[Len(list)]
             \* e goes after every entry that is not greater than it
             n == Cardinality({i \in DOMAIN sorted : ~StrLess(e.filename, sorted[i].filename)})
         IN  SubSeq(sorted, 1, n) \o <<e>> \o SubSeq(sorted, n + 1, Len(sorted))

\* A parse_manifest that gives every entry the format of its own record only.
parse_manifest_no_inherit(doc) ==
    SortByName([i \in DOMAIN doc.files |->
        ManifestEntry(doc.files[i].name, doc.files[i].rec.version, doc.files[i].rec.hash,
                      doc.files[i].rec.format,
                      doc.files[i].rec.mod, doc.files[i].rec.metadata)])

\* The list parse_manifest(path) returns for the document at path.
parse_manifest(doc) ==
    LET global_format == doc.format
    IN  SortByName([i \in DOMAIN doc.files |->
            ManifestEntry(doc.files[i].name, doc.files[i].rec.version, doc.files[i].rec.hash,
                          IF Truthy(doc.files[i].rec.format)
                          THEN doc.files[i].rec.format ELSE global_format,
                          doc.files[i].rec.mod, doc.files[i].rec.metadata)])

\* The formats an entry or a record can state: none, the empty string, two others.
Formats == {None, Some(""), Some("2"), Some("x")}

CodecNames == {Name_a_json, Name_b_json, Name_c_png, Name_d_json}

\* The entries handed to write_manifest: every format, with every other field
\* absent or (for one of the names) with every other field set.
CodecVariants(fn) ==
    {ManifestEntry(fn, None, None, f, None, None) : f \in Formats}
    \cup
    (IF fn = Name_a_json
     THEN {ManifestEntry(fn, Some("1"), Some(Hash("md5json", <<"h1">>, 2)), f, Some(ModA), Some(ModB)) :
              f \in Formats}
     ELSE {})

CodecLists == EntryLists(UNION {CodecVariants(fn) : fn \in CodecNames}, MaxCodecEntries)

\* Manifests that were not written by write_manifest: any top-level format, the
\* files in any order, a record's format stated or not.
GivenRecords ==
    {[name |-> fn, rec |-> RawManifestEntry(Some("1"), None, f, None, None)] :
        fn \in {Name_a_json, Name_b_json}, f \in Formats \ {Some("2")}}

GivenManifests ==
    {ManifestFile(top, files) :
        top \in Formats \ {Some("x")},
        files \in {q \in SeqsUpTo(GivenRecords, 2) :
                        Cardinality({q[i].name : i \in DOMAIN q}) = Len(q)}}

InitCodec ==
    /\ pc = "codec"
    /\ \/ entries \in CodecLists /\ disk = None
       \/ entries = <<>> /\ disk \in {Some(m) : m \in GivenManifests}
    /\ parsed = None
    /\ before = <<>> /\ after = <<>> /\ changes = None /\ matched = None
    /\ folder = {} /\ scans = <<>> /\ allowed = None
    /\ rendered = None /\ message = None
    /\ inputs = {} /\ options = None /\ repo = None /\ runs = <<>>
    /\ docs = <<>> /\ extracted = <<>>

\* write_manifest(path, entries)
WriteManifest ==
    /\ pc = "codec"
    /\ pc' = "codec_written"
    /\ disk' = Some(write_manifest(entries))
    /\ parsed' = None
    /\ UNCHANGED <<CmdVars, RenderVars, entries, DiffVars, ScanVars, JsonVars>>

\* parsed = parse_manifest(path)
ParseManifest ==
    /\ pc \in {"codec", "codec_written"}
    /\ disk # None
    /\ parsed = None
    /\ parsed' = Some(parse_manifest(disk[1]))
    /\ UNCHANGED <<CmdVars, RenderVars, pc, entries, disk, DiffVars, ScanVars, JsonVars>>

NextCodec == WriteManifest \/ ParseManifest

SpecCodec == InitCodec /\ [][NextCodec]_vars

-----------------------------------------------------------------------------
(* Claims about the codec. *)

\* The record written for the file of the given name.
RecordOf(doc, fn) == (CHOOSE item \in Range(doc.files) : item.name = fn).rec

\* No entry of the list states the empty string as its format.
NoEmptyFormat(list) == \A i \in DOMAIN list : list[i].format # Some("")

\* C3: round trip.  For an entry list E sorted by file name with unique names
\* (and no empty-string format), write_manifest(path, E) followed by
\* parse_manifest(path) returns a list equal to E; in particular every entry's
\* format is its original format, also when that format is absent.
C3_RoundTrip ==
    (pc = "codec_written" /\ parsed # None
        /\ SortedByName(entries) /\ NoEmptyFormat(entries)) =>
        /\ Len(parsed[1]) = Len(entries)
        /\ \A i \in DOMAIN entries : SameFields(parsed[1][i], entries[i])

\* How often format f occurs at the positions I of the list, and where first.
Times(list, I, f) == Cardinality({i \in I : list[i].format = f})
First(list, I, f) == CHOOSE i \in I :
    list[i].format = f /\ \A j \in I : list[j].format = f => i <= j

\* The most frequent format at the positions I of the list, the one met first
\* among those equally frequent; None when I is empty.
MostFrequentFormat(list, I) ==
    IF I = {} THEN None
    ELSE CHOOSE f \in {list[i].format : i \in I} :
            \A g \in {list[i].format : i \in I} :
                \/ Times(list, I, g) < Times(list, I, f)
                \/ /\ Times(list, I, g) = Times(list, I, f)
                   /\ First(list, I, f) <= First(list, I, g)

\* A written record carries a format key exactly when its entry's format is
\* non-null and differs from the top-level format.
OwnFormatKept ==
    \A i \in DOMAIN entries :
        RecordOf(disk[1], entries[i].filename).format =
            IF entries[i].format # None /\ entries[i].format # disk[1].format
            THEN entries[i].format ELSE None

\* C4 as claimed: write_manifest sets the top-level format to the most
\* frequent non-null format of the entries (the first met among equally
\* frequent ones, none when no entry has a format), and a written record
\* carries a format key exactly when its entry's format is non-null and
\* differs from the top-level format.
C4_FormatPromotion ==
    pc = "codec_written" =>
        /\ disk[1].format =
                MostFrequentFormat(entries, {i \in DOMAIN entries : entries[i].format # None})
        /\ OwnFormatKept

\* C4 as amended: the top-level format is the most frequent non-empty format
\* (an entry whose format is absent or the empty string is not counted; none
\* when no entry has a non-empty format); the rule for the records is as
\* claimed.
C4_FormatPromotionNonEmpty ==
    pc = "codec_written" =>
        /\ disk[1].format =
                MostFrequentFormat(entries, {i \in DOMAIN entries : Truthy(entries[i].format)})
        /\ OwnFormatKept

\* Two formats are equally frequent and the first one met was promoted: the
\* second entry keeps its own format key, the third, without a format, has none.
C4_Witness ==
    /\ pc = "codec_written" /\ Len(entries) = 3
    /\ Truthy(entries[1].format) /\ Truthy(entries[2].format)
    /\ entries[1].format # entries[2].format /\ entries[3].format = None
    /\ disk[1].format = entries[1].format
    /\ RecordOf(disk[1], entries[1].filename).format = None
    /\ RecordOf(disk[1], entries[2].filename).format = entries[2].format
    /\ RecordOf(disk[1], entries[3].filename).format = None

-----------------------------------------------------------------------------
(* filetypes/json.py and filetypes/binary.py: the extractors.               *)
(*                                                                         *)
(* A file's content is a record [kind, data, val]:                         *)
(*   kind = "unreadable"  open() fails (an I/O error);                     *)
(*   kind = "binary"      the bytes are not UTF-8 text;                    *)
(*   kind = "text"        UTF-8 text that is not JSON;                     *)
(*   kind = "json"        UTF-8 text that json.load parses to val.         *)
(* data stands for the bytes.  md5 is modelled as a collision-free digest  *)
(* of its input.                                                           *)

Content(kind, data, val) == [kind |-> kind, data |-> data, val |-> val]

JsonFile(data, val) == Content("json", data, val)

md5(text) == <<"md5", text>>

\* json.dumps(s) of a str without characters to escape.
Quote(str) == "\"" \o str \o "\""

\* ','.join(parts)
RECURSIVE Join(_)
Join(parts) ==
    IF parts = <<>> THEN ""
    ELSE IF Len(parts) = 1 THEN parts[1]
    ELSE parts[1] \o "," \o Join(Tail(parts))

\* json.dumps(value, separators=(',', ':'), ensure_ascii=False): keys in
\* insertion order, no white space.
RECURSIVE Dumps(_)
Dumps(x) ==
    CASE x.t = "null" -> "null"
      [] x.t = "str" -> Quote(x.s)
      [] x.t = "int" -> ToString(x.n)
      [] x.t = "list" -> "[" \o Join([i \in DOMAIN x.o |-> Dumps(x.o[i].v)]) \o "]"
      [] OTHER -> "{" \o Join([i \in DOMAIN x.o |->
                        Quote(x.o[i].k) \o ":" \o Dumps(x.o[i].v)]) \o "}"

_only_string(value) ==
    IF value # None /\ value[1].t = "str" THEN Some(value[1].s) ELSE None

\* An accessor that lets any value through.
_only_dict_any_type(value) ==
    IF value # None THEN Some(value[1].o) ELSE None

_only_dict(value) ==
    IF value # None /\ value[1].t = "dict" THEN Some(value[1].o) ELSE None

\* json.load(f): None on a JSONDecodeError (and for the JSON text null).
_load_json(content) ==
    IF content.kind = "json" /\ content.val.t # "null" THEN Some(content.val) ELSE None

\* open(..., encoding='utf-8') and json.load raise anything but a JSONDecodeError.
JsonRaises(content) == content.kind \in {"unreadable", "binary"}

IsNotVersion(item) == item.k # "version"

\* A hash that keeps the version key.
_hash_json_content_with_version(data) ==
    LET normalized == Dumps(JDict(data))
    IN  Hash("md5json", md5(normalized), Len(normalized))

_hash_json_content(data) ==
    LET filtered == SelectSeq(data, IsNotVersion)
        normalized == Dumps(JDict(filtered))
    IN  Hash("md5json", md5(normalized), Len(normalized))

\* An extractor that rejects a missing version only, not an empty one.
get_metadata_from_json_empty_version(fname, content) ==
    LET data == _load_json(content)
    IN  IF data = None THEN None
        ELSE IF data[1].t # "dict" THEN None
        ELSE LET data_dict == data[1].o
                 version == _only_string(DictGet(data_dict, "version"))
                 format == _only_string(DictGet(data_dict, "format"))
                 metadata == _only_dict(DictGet(data_dict, "metadata"))
                 mod == _only_dict(DictGet(data_dict, "mod"))
             IN  IF version = None THEN None
                 ELSE Some(ManifestEntry(fname, version, Some(_hash_json_content(data_dict)),
                                         format, mod, metadata))

\* What get_metadata_from_json(file_path) returns: None or an entry.
get_metadata_from_json(fname, content) ==
    LET data == _load_json(content)
    IN  IF data = None THEN None
        ELSE IF data[1].t # "dict" THEN None
        ELSE LET data_dict == data[1].o
                 version == _only_string(DictGet(data_dict, "version"))
                 format == _only_string(DictGet(data_dict, "format"))
                 metadata == _only_dict(DictGet(data_dict, "metadata"))
                 mod == _only_dict(DictGet(data_dict, "mod"))
             IN  IF ~Truthy(version) THEN None
                 ELSE Some(ManifestEntry(fname, version, Some(_hash_json_content(data_dict)),
                                         format, mod, metadata))

\* What get_metadata_from_binary(file_path) returns.
get_metadata_from_binary(fname, content) ==
    Some(ManifestEntry(fname, None, Some(Hash("md5", md5(content.data), Len(content.data))),
                       None, None, None))

BinaryRaises(content) == content.kind = "unreadable"

-----------------------------------------------------------------------------
(* scanner.py and filtering.py.  A child of the folder is a record          *)
(* [name, dir, content, nested]: dir tells a directory from a file, nested  *)
(* holds the names of the files inside a directory.                         *)

Child(name, dir, content, nested) ==
    [name |-> name, dir |-> dir, content |-> content, nested |-> nested]

\* registered_types.get(extension): the handler, None for an unregistered key.
registered_types(extension) ==
    CASE extension = <<"j", "s", "o", "n">> -> Some("json")
      [] extension = <<"j", "s", "o", "n", "c">> -> Some("json")
      [] extension = <<"p", "n", "g">> -> Some("binary")
      [] extension = <<"j", "p", "g">> -> Some("binary")
      [] extension = <<"j", "p", "e", "g">> -> Some("binary")
      [] OTHER -> None

\* extension in allowed_types (the keys of registered_types)
allowed_types(extension) == registered_types(extension) # None

\* name.rfind('.') + 1: the place of the last dot, 0 when there is none.
LastDot(name) ==
    IF \E i \in DOMAIN name : name[i] = "."
    THEN CHOOSE i \in DOMAIN name :
            name[i] = "." /\ \A j \in DOMAIN name : name[j] = "." => j <= i
    ELSE 0

\* PurePath.suffix: the last dot and what follows it, '' when the name has no
\* dot, starts with its only dot or ends with a dot.
Suffix(name) ==
    IF 1 < LastDot(name) /\ LastDot(name) < Len(name)
    THEN SubSeq(name, LastDot(name), Len(name))
    ELSE <<>>

\* str.lstrip('.')
RECURSIVE LstripDot(_)
LstripDot(str) ==
    IF str # <<>> /\ Head(str) = "." THEN LstripDot(Tail(str)) ELSE str

\* filename[:1] in ('.', '_'), name.startswith(('.', '_'))
IsHiddenName(name) == name # <<>> /\ name[1] \in {".", "_"}

\* The call handler(file_path) raises.
HandlerRaises(handler, content) ==
    IF handler = "json" THEN JsonRaises(content) ELSE BinaryRaises(content)

\* entry = handler(file_path)
HandlerEntry(handler, fname, content) ==
    IF handler = "json" THEN get_metadata_from_json(fname, content)
    ELSE get_metadata_from_binary(fname, content)

\* folder_path.glob('*.*'): the immediate children whose name holds a dot,
\* hidden ones and directories included.
Glob(children) == {c \in children : \E i \in DOMAIN c.name : c.name[i] = "."}

\* All the orders in which a set can be enumerated.
Orders(S) == {q \in SeqsUpTo(S, Cardinality(S)) : Range(q) = S}

\* What a scan gives: a list, or nothing when an exception ended it.
Returned(list) == [ok |-> TRUE, list |-> list]
Raised == [ok |-> FALSE, list |-> <<>>]

\* A scanner that skips names starting with '.' only.
RECURSIVE create_manifest_from_folder_keeps_underscore(_)
create_manifest_from_folder_keeps_underscore(listing) ==
    IF listing = <<>> THEN Returned(<<>>)
    ELSE LET sofar == create_manifest_from_folder_keeps_underscore(
                            SubSeq(listing, 1, Len(listing) - 1))
             file_path == listing[Len(listing)]
             handler == registered_types(LstripDot(Suffix(file_path.name)))
         IN  IF ~sofar.ok THEN sofar
             ELSE IF file_path.name[1] = "." \/ file_path.dir THEN sofar
             ELSE IF handler = None THEN sofar
             ELSE IF HandlerRaises(handler[1], file_path.content) THEN Raised
             ELSE LET entry == HandlerEntry(handler[1], file_path.name, file_path.content)
                  IN  IF entry # None THEN Returned(Append(sofar.list, entry[1])) ELSE sofar

\* create_manifest_from_folder(folder_path), for the order in which glob
\* yields the children.
RECURSIVE create_manifest_from_folder(_)
create_manifest_from_folder(listing) ==
    IF listing = <<>> THEN Returned(<<>>)
    ELSE LET sofar == create_manifest_from_folder(SubSeq(listing, 1, Len(listing) - 1))
             file_path == listing[Len(listing)]
             filename == file_path.name
             extension == LstripDot(Suffix(file_path.name))
             handler == registered_types(extension)
         IN  IF ~sofar.ok THEN sofar
             ELSE IF IsHiddenName(filename) \/ file_path.dir THEN sofar
             ELSE IF handler = None THEN sofar
             ELSE IF HandlerRaises(handler[1], file_path.content) THEN Raised
             ELSE LET entry == HandlerEntry(handler[1], filename, file_path.content)
                  IN  IF entry # None THEN Returned(Append(sofar.list, entry[1])) ELSE sofar

\* filtering.py
file_is_allowed(file) ==
    IF file.dir THEN FALSE
    ELSE IF IsHiddenName(file.name) THEN FALSE
    ELSE IF ~allowed_types(LstripDot(Suffix(file.name))) THEN FALSE
    ELSE TRUE

\* cmd_utils/input_utils.py: collect_allowed_inputs([folder], allow_all=...),
\* for the order in which iterdir yields the folder's files.
collect_allowed_inputs(input_files, allow_all) ==
    IF allow_all THEN [allowed |-> input_files, filtered |-> <<>>]
    ELSE [allowed |-> SelectSeq(input_files, file_is_allowed),
          filtered |-> SelectSeq(input_files, LAMBDA f : ~file_is_allowed(f))]

-----------------------------------------------------------------------------
(* The scanner component: a folder, scanned up to MaxScans times with        *)
(* nothing else touching it, or handed to collect_allowed_inputs.            *)

Name_hidden_underscore == <<"_", "h", ".", "j", "s", "o", "n">>
Name_hidden_dot == <<".", "d", ".", "j", "s", "o", "n">>
Name_f_gif == <<"f", ".", "g", "i", "f">>
Name_A_JSON == <<"A", ".", "J", "S", "O", "N">>
Name_sub == <<"s", "u", "b">>
Name_dir_json == <<"s", ".", "j", "s", "o", "n">>
Name_n_json == <<"n", ".", "j", "s", "o", "n">>
Name_noext == <<"x">>

DocV1 == JsonFile("{\"version\":\"1\"}", JDict(<<KV("version", JStr("1"))>>))
DocV2 == JsonFile("{\"version\":\"2\",\"format\":\"x\"}",
                  JDict(<<KV("version", JStr("2")), KV("format", JStr("x"))>>))
DocNoVersion == JsonFile("{\"format\":\"f\"}", JDict(<<KV("format", JStr("f"))>>))
Unreadable == Content("unreadable", "", JNull)
PngBytes == Content("binary", "pngbytes", JNull)
NoContent == Content("binary", "", JNull)  \* a directory: never opened

\* What the folder can hold.
Catalog ==
    {Child(Name_a_json, FALSE, DocV1, {}),
     Child(Name_a_json, FALSE, DocNoVersion, {}),
     Child(Name_a_json, FALSE, Unreadable, {}),
     Child(Name_b_json, FALSE, DocV2, {}),
     Child(Name_c_png, FALSE, PngBytes, {}),
     Child(Name_hidden_underscore, FALSE, DocV1, {}),
     Child(Name_hidden_dot, FALSE, DocV1, {}),
     Child(Name_f_gif, FALSE, PngBytes, {}),
     Child(Name_A_JSON, FALSE, DocV1, {}),
     Child(Name_noext, FALSE, DocV1, {}),
     Child(Name_sub, TRUE, NoContent, {Name_n_json}),
     Child(Name_dir_json, TRUE, NoContent, {Name_n_json})}

Folders ==
    {S \in SUBSET Catalog :
        /\ Cardinality(S) <= MaxChildren
        /\ Cardinality({c.name : c \in S}) = Cardinality(S)}

InitScan ==
    /\ pc \in {"scan", "collect"}
    /\ rendered = None /\ message = None
    /\ inputs = {} /\ options = None /\ repo = None /\ runs = <<>>
    /\ folder \in Folders
    /\ scans = <<>> /\ allowed = None
    /\ before = <<>> /\ after = <<>> /\ changes = None /\ matched = None
    /\ entries = <<>> /\ disk = None /\ parsed = None
    /\ docs = <<>> /\ extracted = <<>>

\* create_manifest_from_folder(folder): glob yields the children in some order.
Scan ==
    /\ pc = "scan"
    /\ Len(scans) < MaxScans
    /\ \E listing \in Orders(Glob(folder)) :
        scans' = Append(scans, create_manifest_from_folder(listing))
    /\ UNCHANGED <<CmdVars, RenderVars, pc, folder, allowed, DiffVars, CodecVars, JsonVars>>

\* collect_allowed_inputs([folder], allow_all=...): iterdir yields the
\* folder's files in some order.
CollectAllowedInputs ==
    /\ pc = "collect"
    /\ allowed = None
    /\ \E allow_all \in BOOLEAN :
       \E input_files \in Orders({c \in folder : ~c.dir}) :
        allowed' = Some(collect_allowed_inputs(input_files, allow_all))
    /\ UNCHANGED <<CmdVars, RenderVars, pc, folder, scans, DiffVars, CodecVars, JsonVars>>

NextScan == Scan \/ CollectAllowedInputs

SpecScan == InitScan /\ [][NextScan]_vars

-----------------------------------------------------------------------------
(* The extractor component: get_metadata_from_json applied to two           *)
(* structured files.                                                        *)

DictAB == JDict(<<KV("a", JInt(1)), KV("b", JInt(2))>>)
DictBA == JDict(<<KV("b", JInt(2)), KV("a", JInt(1))>>)

\* The top-level items a structured file can hold besides 'version'.
OtherItemChoices ==
    {KV("a", JInt(1)), KV("a", JInt(2)), KV("p", DictAB), KV("p", DictBA),
     KV("format", JStr("f"))}

VersionChoices == {KV("version", JStr("1")), KV("version", JStr("2"))}

UniqueKeys(items) == Cardinality({items[i].k : i \in DOMAIN items}) = Len(items)

\* s with x put in after its first n elements.
InsertAt(q, n, x) == SubSeq(q, 1, n) \o <<x>> \o SubSeq(q, n + 1, Len(q))

\* The parsed objects: at most MaxKeys other items in any order, and the
\* version anywhere among them or not at all.
JsonDocs ==
    LET others == {q \in SeqsUpTo(OtherItemChoices, MaxKeys) : UniqueKeys(q)}
    IN  {JDict(q) : q \in others}
        \cup UNION {{JDict(InsertAt(q, n, v)) : n \in 0..Len(q), v \in VersionChoices} :
                        q \in others}

InitJson ==
    /\ pc = "json"
    /\ docs \in {<<d1, d2>> : d1 \in JsonDocs, d2 \in JsonDocs}
    /\ extracted = <<None, None>>
    /\ before = <<>> /\ after = <<>> /\ changes = None /\ matched = None
    /\ entries = <<>> /\ disk = None /\ parsed = None
    /\ folder = {} /\ scans = <<>> /\ allowed = None
    /\ rendered = None /\ message = None
    /\ inputs = {} /\ options = None /\ repo = None /\ runs = <<>>

\* extracted[i] = get_metadata_from_json(Path('a.json')) with docs[i] as the
\* file's parsed content.
ExtractJson ==
    /\ pc = "json"
    /\ \E i \in {1, 2} :
        /\ extracted[i] = None
        /\ extracted' = [extracted EXCEPT ![i] =
                Some(get_metadata_from_json(Name_a_json, JsonFile("", docs[i])))]
    /\ UNCHANGED <<CmdVars, RenderVars, pc, docs, DiffVars, CodecVars, ScanVars>>

NextJson == ExtractJson

SpecJson == InitJson /\ [][NextJson]_vars

-----------------------------------------------------------------------------
(* The extractor applied to one file of any content: docs holds the file's *)
(* content, extracted what the call gave.                                  *)

\* The values a top-level key of a structured file can have; <<>> when the
\* key is absent.
VersionValues ==
    {None, Some(JStr("1")), Some(JStr("")), Some(JInt(3)), Some(JNull),
     Some(JList(<<KV("", JStr("1"))>>)), Some(JDict(<<KV("v", JStr("1"))>>))}
FormatValues == {None, Some(JStr("f")), Some(JStr("")), Some(JInt(42)), Some(JList(<<>>))}
ModValues ==
    {None, Some(JDict(<<KV("id", JInt(1))>>)),
     Some(JList(<<KV("", JInt(1)), KV("", JInt(2)), KV("", JInt(3))>>)), Some(JStr("m"))}
MetadataValues == {None, Some(JDict(<<KV("a", JInt(1))>>)), Some(JInt(7)), Some(JNull)}

\* The item of key for an optional value.
ItemOf(key, value) == IF value = None THEN <<>> ELSE <<KV(key, value[1])>>

\* What a file handed to the structured extractor can hold.
FileContents ==
    {JsonFile("", JDict(ItemOf("version", v) \o ItemOf("format", f)
                        \o ItemOf("mod", m) \o ItemOf("metadata", d))) :
        v \in VersionValues, f \in FormatValues, m \in ModValues, d \in MetadataValues}
    \cup {JsonFile("", JStr("1")), JsonFile("", JInt(1)), JsonFile("", JNull),
          JsonFile("", JList(<<KV("", JDict(<<KV("version", JStr("1"))>>))>>)),
          Content("text", "{", JNull), Content("binary", "\\x89", JNull),
          Content("unreadable", "", JNull)}

\* What a call of the extractor gave: an exception, or what it returned.
CallRaised == [raised |-> TRUE, entry |-> None]
CallReturned(entry) == [raised |-> FALSE, entry |-> entry]

InitExtract ==
    /\ pc = "extract"
    /\ docs \in {<<c>> : c \in FileContents}
    /\ extracted = <<>>
    /\ before = <<>> /\ after = <<>> /\ changes = None /\ matched = None
    /\ entries = <<>> /\ disk = None /\ parsed = None
    /\ folder = {} /\ scans = <<>> /\ allowed = None
    /\ rendered = None /\ message = None
    /\ inputs = {} /\ options = None /\ repo = None /\ runs = <<>>

\* extracted = get_metadata_from_json(Path('a.json')) on the file docs[1].
ExtractFile ==
    /\ pc = "extract"
    /\ extracted' =
            IF JsonRaises(docs[1]) THEN <<CallRaised>>
            ELSE <<CallReturned(get_metadata_from_json(Name_a_json, docs[1]))>>
    /\ pc' = "extracted"
    /\ UNCHANGED <<CmdVars, RenderVars, docs, DiffVars, CodecVars, ScanVars>>

NextExtract == ExtractFile

SpecExtract == InitExtract /\ [][NextExtract]_vars

-----------------------------------------------------------------------------
(* Claims about the extractor. *)

\* The top-level items of a parsed object other than 'version', in order.
OtherItems(doc) == SelectSeq(doc.o, IsNotVersion)

\* Both files have been extracted and both gave an entry.
BothExtracted ==
    /\ pc = "json"
    /\ extracted[1] # None /\ extracted[2] # None
    /\ extracted[1][1] # None /\ extracted[2][1] # None

-----------------------------------------------------------------------------
(* Claims about the scanner and the filter. *)

\* C6: the entry list a scan returns is sorted by file name in ordinal
\* order, whatever the order in which the children were enumerated.
C6_ScanSorted ==
    pc = "scan" => \A i \in DOMAIN scans : scans[i].ok => SortedByName(scans[i].list)

\* C7: a scan changes nothing in the folder, and the list it returns matches
\* (manifest_match) the list every earlier scan of the unchanged folder
\* returned.
C7_ScanIdempotent ==
    [][(pc = "scan" /\ scans' # scans) =>
            /\ folder' = folder
            /\ \A i \in DOMAIN scans :
                (scans[i].ok /\ scans'[Len(scans')].ok) =>
                    manifest_match(scans[i].list, scans'[Len(scans')].list)]_vars

\* The extension of a name: what follows its last dot.
ExtOf(name) ==
    IF LastDot(name) = 0 THEN <<>> ELSE SubSeq(name, LastDot(name) + 1, Len(name))

\* The immediate children that are files, are not hidden and have a
\* registered extension.
Eligible ==
    {c \in folder : ~c.dir /\ c.name[1] \notin {".", "_"} /\ registered_types(ExtOf(c.name)) # None}

ExtractorOf(c) == registered_types(ExtOf(c.name))[1]

\* The eligible children whose extractor gives an entry, and those it cannot read.
Accepted == {c \in Eligible : HandlerEntry(ExtractorOf(c), c.name, c.content) # None}
Unread == {c \in Eligible : HandlerRaises(ExtractorOf(c), c.content)}

Lower(str) ==
    [i \in DOMAIN str |->
        CASE str[i] = "A" -> "a" [] str[i] = "B" -> "b" [] str[i] = "G" -> "g"
          [] str[i] = "J" -> "j" [] str[i] = "N" -> "n" [] str[i] = "O" -> "o"
          [] str[i] = "P" -> "p" [] str[i] = "S" -> "s" [] OTHER -> str[i]]

\* C9: a file that is not hidden and whose extension, lower-cased, is a
\* registered extension is allowed by the filter and is dispatched to the
\* extractor of the lower-case extension: the scan's result holds the entry
\* that extractor gives for it.
C9_LowerCasedExtension ==
    \A c \in folder :
        (~c.dir /\ c.name[1] \notin {".", "_"} /\ registered_types(Lower(ExtOf(c.name))) # None) =>
            LET handler == registered_types(Lower(ExtOf(c.name)))[1]
            IN  /\ (pc = "collect" /\ allowed # None) => c \in Range(allowed[1].allowed)
                /\ pc = "scan" =>
                    \A i \in DOMAIN scans :
                        scans[i].ok =>
                            (c.name \in NamesOf(scans[i].list)
                                <=> HandlerEntry(handler, c.name, c.content) # None)

\* The top-level value of the file, when it is an object.
TopItems == docs[1].val.o
IsObject == docs[1].kind = "json" /\ docs[1].val.t = "dict"

\* The file is an object whose 'version' is a string.
HasStringVersion ==
    /\ IsObject
    /\ DictGet(TopItems, "version") # None
    /\ DictGet(TopItems, "version")[1].t = "str"

VersionString == DictGet(TopItems, "version")[1].s

PresentNot(key, t) ==
    DictGet(TopItems, key) # None /\ DictGet(TopItems, key)[1].t # t

\* C12: a structured file with a valid (non-empty) string version whose
\* 'format' is present but not a string, or whose 'mod' or 'metadata' is
\* present but not an object, is accepted, and the entry has that field
\* absent.
C12_CoercedNotRejected ==
    (pc = "extracted" /\ HasStringVersion /\ VersionString # "") =>
        /\ ~extracted[1].raised /\ extracted[1].entry # None
        /\ PresentNot("format", "str") => extracted[1].entry[1].format = None
        /\ PresentNot("mod", "dict") => extracted[1].entry[1].mod = None
        /\ PresentNot("metadata", "dict") => extracted[1].entry[1].metadata = None

\* A file with format 42, mod a list and metadata a number was accepted
\* with the three fields absent.
C12_Witness ==
    /\ pc = "extracted" /\ HasStringVersion /\ VersionString = "1"
    /\ PresentNot("format", "str") /\ PresentNot("mod", "dict")
    /\ DictGet(TopItems, "mod")[1].t = "list" /\ PresentNot("metadata", "dict")
    /\ extracted[1].entry # None
    /\ extracted[1].entry[1].format = None /\ extracted[1].entry[1].mod = None
    /\ extracted[1].entry[1].metadata = None

-----------------------------------------------------------------------------
(* commits.py: natsorted(lines, alg=ns.IGNORECASE) and                      *)
(* build_file_change_list.  A line is a sequence of characters.             *)

\* The characters of a str of at most one character.
Chars(str) == IF str = "" THEN <<>> ELSE <<str>>

IsDigit(c) == c \in {"0", "1", "2", "3"}

\* str.casefold() of a character.
Casefold(c) ==
    CASE c = "A" -> "a" [] c = "B" -> "b" [] c = "F" -> "f" [] c = "G" -> "g"
      [] c = "J" -> "j" [] c = "N" -> "n" [] c = "O" -> "o" [] c = "P" -> "p"
      [] c = "R" -> "r" [] c = "S" -> "s" [] c = "U" -> "u" [] OTHER -> c

\* The length of the longest prefix of digits (digit = TRUE) or of other
\* characters (digit = FALSE).
RECURSIVE RunLen(_, _)
RunLen(str, digit) ==
    IF str = <<>> \/ IsDigit(Head(str)) # digit THEN 0
    ELSE 1 + RunLen(Tail(str), digit)

\* int(digits)
RECURSIVE IntOf(_)
IntOf(digits) ==
    IF digits = <<>> THEN 0
    ELSE 10 * IntOf(SubSeq(digits, 1, Len(digits) - 1)) + (Ord(digits[Len(digits)]) - Ord("0"))

TextChunk(str) == [num |-> FALSE, n |-> 0, s |-> [i \in DOMAIN str |-> Casefold(str[i])]]
NumChunk(digits) == [num |-> TRUE, n |-> IntOf(digits), s |-> <<>>]

\* The runs of digits and of other characters a str splits into.
RECURSIVE Chunks(_)
Chunks(str) ==
    IF str = <<>> THEN <<>>
    ELSE LET digit == IsDigit(Head(str))
             k == RunLen(str, digit)
             run == SubSeq(str, 1, k)
         IN  <<IF digit THEN NumChunk(run) ELSE TextChunk(run)>>
                \o Chunks(SubSeq(str, k + 1, Len(str)))

\* The natsort key of a str: its runs, numbers by value and text case-folded,
\* with an empty text in front of a leading number.
NatKey(str) ==
    IF str # <<>> /\ IsDigit(Head(str)) THEN <<TextChunk(<<>>)>> \o Chunks(str)
    ELSE Chunks(str)

ChunkLess(x, y) ==
    IF x.num /\ y.num THEN x.n < y.n
    ELSE IF ~x.num /\ ~y.num THEN StrLess(x.s, y.s)
    ELSE x.num

\* key1 < key2 as tuples.
RECURSIVE KeyLess(_, _)
KeyLess(k1, k2) ==
    IF k2 = <<>> THEN FALSE
    ELSE IF k1 = <<>> THEN TRUE
    ELSE IF Head(k1) = Head(k2) THEN KeyLess(Tail(k1), Tail(k2))
    ELSE ChunkLess(Head(k1), Head(k2))

\* natsorted(lines, alg=ns.IGNORECASE): a stable sort by the natsort key.
RECURSIVE natsorted(_)
natsorted(lines) ==
    IF lines = <<>> THEN <<>>
    ELSE LET front == natsorted(SubSeq(lines, 1, Len(lines) - 1))
             x == lines[Len(lines)]
             k == Cardinality({i \in DOMAIN front : ~KeyLess(NatKey(x), NatKey(front[i]))})
         IN  SubSeq(front, 1, k) \o <<x>> \o SubSeq(front, k + 1, Len(front))

\* A _fmt_version without the 'v'.
_fmt_version_bare(v) ==
    IF Truthy(v) THEN Chars(v[1])
    ELSE <<"n", "o", " ", "v", "e", "r", "s", "i", "o", "n">>

_fmt_version(v) ==
    IF Truthy(v) THEN <<"v">> \o Chars(v[1])
    ELSE <<"n", "o", " ", "v", "e", "r", "s", "i", "o", "n">>

Title_Added == <<"A", "d", "d", "e", "d", ":">>
Title_Updated == <<"U", "p", "d", "a", "t", "e", "d", ":">>
Title_Removed == <<"R", "e", "m", "o", "v", "e", "d", ":">>
EmptyLine == <<>>

\* f'* {filename}'
BareLine(filename) == <<"*", " ">> \o filename

\* f'* {filename} ({_fmt_version(version)})'
VersionLine(filename, version) ==
    BareLine(filename) \o <<" ", "(">> \o _fmt_version(version) \o <<")">>

\* '\n'.join(blocks), without the blank line.
RECURSIVE JoinBlocksNoBlank(_)
JoinBlocksNoBlank(sections) ==
    IF sections = <<>> THEN <<EmptyLine>>
    ELSE IF Len(sections) = 1 THEN sections[1]
    ELSE sections[1] \o JoinBlocksNoBlank(Tail(sections))

\* '\n\n'.join('\n'.join(block) for block in sections)
RECURSIVE JoinBlocks(_)
JoinBlocks(sections) ==
    IF sections = <<>> THEN <<EmptyLine>>
    ELSE IF Len(sections) = 1 THEN sections[1]
    ELSE sections[1] \o <<EmptyLine>> \o JoinBlocks(Tail(sections))

build_file_change_list(bf, af) ==
    LET chg == _diff_entries(bf, af)
        added_lines ==
            [i \in DOMAIN chg.added |->
                IF Truthy(chg.added[i].version)
                THEN VersionLine(chg.added[i].filename, chg.added[i].version)
                ELSE BareLine(chg.added[i].filename)]
        updated_lines ==
            [i \in DOMAIN chg.updated |->
                IF chg.updated[i][1].version # chg.updated[i][2].version
                THEN VersionLine(chg.updated[i][2].filename, chg.updated[i][2].version)
                ELSE BareLine(chg.updated[i][2].filename)]
        removed_lines == [i \in DOMAIN chg.removed |-> BareLine(chg.removed[i].filename)]
        sections ==
            (IF chg.added # <<>> THEN <<<<Title_Added>> \o natsorted(added_lines)>> ELSE <<>>)
            \o (IF chg.updated # <<>>
                THEN <<<<Title_Updated>> \o natsorted(updated_lines)>> ELSE <<>>)
            \o (IF chg.removed # <<>>
                THEN <<<<Title_Removed>> \o natsorted(removed_lines)>> ELSE <<>>)
    IN  JoinBlocks(sections)

-----------------------------------------------------------------------------
(* The renderer component: build_file_change_list applied to two entry      *)
(* lists.  The lists are described file by file: what the file's entry is   *)
(* before and after, <<>> where it has none.                                *)

Name_f2_json == <<"f", "2", ".", "j", "s", "o", "n">>
Name_f10_json == <<"f", "1", "0", ".", "j", "s", "o", "n">>
Name_F3_json == <<"F", "3", ".", "j", "s", "o", "n">>
Name_f == <<"f">>

RenderNames == {Name_f2_json, Name_f10_json, Name_F3_json, Name_f}

RenderEntry(fn, ver, digest) ==
    ManifestEntry(fn, ver, Some(Hash("md5", <<digest>>, 2)), None, None, None)

\* The entries a file of the given name can have.
RenderVariants(fn) ==
    CASE fn = Name_f2_json -> {RenderEntry(fn, Some("1"), "h1"), RenderEntry(fn, Some("2"), "h1")}
      [] fn = Name_f10_json -> {RenderEntry(fn, Some("1"), "h1"), RenderEntry(fn, None, "h1")}
      [] fn = Name_F3_json -> {RenderEntry(fn, None, "h1"), RenderEntry(fn, None, "h2")}
      [] OTHER -> {RenderEntry(fn, Some("1"), "h1"), RenderEntry(fn, Some(""), "h1")}

\* A file's entry before and after; it has one on a side at least.
FileStatesOf(fn) ==
    {[name |-> fn, b |-> b, a |-> a] :
        b \in {None} \cup {Some(e) : e \in RenderVariants(fn)},
        a \in {None} \cup {Some(e) : e \in RenderVariants(fn)}} \ {[name |-> fn, b |-> None, a |-> None]}

\* The files of the given names, in that order.
RECURSIVE FilesNamed(_)
FilesNamed(names) ==
    IF names = <<>> THEN {<<>>}
    ELSE {<<f>> \o rest : f \in FileStatesOf(Head(names)), rest \in FilesNamed(Tail(names))}

\* Up to MaxRenderEntries different names, in any order.
RenderNameOrders ==
    {q \in SeqsUpTo(RenderNames, MaxRenderEntries) : Cardinality(Range(q)) = Len(q)}

HasBefore(f) == f.b # None
HasAfter(f) == f.a # None
BeforeOf(files) == LET q == SelectSeq(files, HasBefore) IN [i \in DOMAIN q |-> q[i].b[1]]
AfterOf(files) == LET q == SelectSeq(files, HasAfter) IN [i \in DOMAIN q |-> q[i].a[1]]

InitRender ==
    /\ pc = "render"
    /\ \E names \in RenderNameOrders : \E files \in FilesNamed(names) :
            before = BeforeOf(files) /\ after = AfterOf(files)
    /\ changes = None /\ matched = None
    /\ entries = <<>> /\ disk = None /\ parsed = None
    /\ folder = {} /\ scans = <<>> /\ allowed = None
    /\ rendered = None /\ message = None
    /\ inputs = {} /\ options = None /\ repo = None /\ runs = <<>>
    /\ docs = <<>> /\ extracted = <<>>

\* rendered = build_file_change_list(before, after)
BuildFileChangeList ==
    /\ pc = "render"
    /\ rendered = None
    /\ rendered' = Some(build_file_change_list(before, after))
    /\ UNCHANGED <<CmdVars, pc, message, DiffVars, CodecVars, ScanVars, JsonVars>>

NextRender == BuildFileChangeList

SpecRender == InitRender /\ [][NextRender]_vars

-----------------------------------------------------------------------------
(* Claims about the change list. *)

AddedEntries == {e \in Range(after) : e.filename \notin NamesOf(before)}
RemovedEntries == {e \in Range(before) : e.filename \notin NamesOf(after)}
UpdatedPairs ==
    {p \in Range(before) \X Range(after) :
        p[1].filename = p[2].filename /\ ~SameFields(p[1], p[2])}

\* The lines of the block under the given title, <<>> when there is no such block.
BlockLines(title) ==
    IF \A i \in DOMAIN rendered[1] : rendered[1][i] # title THEN <<>>
    ELSE LET t == CHOOSE i \in DOMAIN rendered[1] : rendered[1][i] = title
             ends == {j \in DOMAIN rendered[1] : j > t /\ rendered[1][j] = EmptyLine}
             last == IF ends = {} THEN Len(rendered[1])
                     ELSE (CHOOSE j \in ends : \A k \in ends : j <= k) - 1
         IN  SubSeq(rendered[1], t + 1, last)

\* The block holds one line for each member of the bucket, and nothing else.
BlockIs(title, lines) ==
    /\ Range(BlockLines(title)) = lines
    /\ Len(BlockLines(title)) = Cardinality(lines)

\* '* <filename> (v<version>)', the version of an entry that has none being ''.
ShownLine(e) ==
    BareLine(e.filename) \o <<" ", "(", "v">>
        \o (IF e.version = None THEN <<>> ELSE Chars(e.version[1])) \o <<")">>

\* C13 as stated: an added entry's line is '* <filename> (v<version>)' if its
\* version is present (and not empty) and '* <filename>' otherwise; an updated
\* pair's line is '* <filename> (v<after-version>)' if the two versions differ
\* and '* <filename>' if they are equal; a removed entry's line is
\* '* <filename>'.
C13_LineFormat ==
    (pc = "render" /\ rendered # None) =>
        /\ BlockIs(Title_Added,
                {IF Truthy(e.version) THEN ShownLine(e) ELSE BareLine(e.filename) :
                    e \in AddedEntries})
        /\ BlockIs(Title_Updated,
                {IF p[1].version # p[2].version THEN ShownLine(p[2]) ELSE BareLine(p[2].filename) :
                    p \in UpdatedPairs})
        /\ BlockIs(Title_Removed, {BareLine(e.filename) : e \in RemovedEntries})

\* '* <filename> (no version)'
NoVersionLine(e) ==
    BareLine(e.filename)
        \o <<" ", "(", "n", "o", " ", "v", "e", "r", "s", "i", "o", "n", ")">>

\* C13 amended: as stated, but an updated pair whose versions differ and
\* whose after version is absent or empty has the line
\* '* <filename> (no version)'.
C13_LineFormatNoVersion ==
    (pc = "render" /\ rendered # None) =>
        /\ BlockIs(Title_Added,
                {IF Truthy(e.version) THEN ShownLine(e) ELSE BareLine(e.filename) :
                    e \in AddedEntries})
        /\ BlockIs(Title_Updated,
                {IF p[1].version = p[2].version THEN BareLine(p[2].filename)
                 ELSE IF Truthy(p[2].version) THEN ShownLine(p[2])
                 ELSE NoVersionLine(p[2]) :
                    p \in UpdatedPairs})
        /\ BlockIs(Title_Removed, {BareLine(e.filename) : e \in RemovedEntries})

\* A list with an added entry with a version, one updated to another
\* version and a removed one was rendered.
C13_Witness ==
    /\ pc = "render" /\ rendered # None
    /\ \E e \in AddedEntries : Truthy(e.version)
    /\ \E p \in UpdatedPairs : p[1].version # p[2].version /\ Truthy(p[2].version)
    /\ RemovedEntries # {}
    /\ Len(rendered[1]) = 8

\* What a line of the change list is: a title, the blank line, or a file's line.
KindOf(line) ==
    IF line = Title_Added THEN "Added:"
    ELSE IF line = Title_Updated THEN "Updated:"
    ELSE IF line = Title_Removed THEN "Removed:"
    ELSE IF line = EmptyLine THEN ""
    ELSE IF Len(line) > 2 /\ SubSeq(line, 1, 2) = <<"*", " ">> THEN "*"
    ELSE "?"

\* A block of n files under a title; nothing when n = 0.
ExpectedBlock(title, n) == IF n = 0 THEN <<>> ELSE <<title>> \o [i \in 1..n |-> "*"]

\* x and y with a blank line between them when neither is empty.
Below(x, y) == IF x = <<>> THEN y ELSE IF y = <<>> THEN x ELSE x \o <<"">> \o y

\* C14: the change list holds one titled block for each bucket that is not
\* empty, in the order Added, Updated, Removed, with one blank line between
\* two blocks; an empty bucket gives no block, and the text is empty when
\* all three are empty.
C14_BlockLayout ==
    (pc = "render" /\ rendered # None) =>
        LET kinds == [i \in DOMAIN rendered[1] |-> KindOf(rendered[1][i])]
            expected ==
                Below(ExpectedBlock("Added:", Cardinality(AddedEntries)),
                      Below(ExpectedBlock("Updated:", Cardinality(UpdatedPairs)),
                            ExpectedBlock("Removed:", Cardinality(RemovedEntries))))
        IN  kinds = IF expected = <<>> THEN <<"">> ELSE expected

\* A change list with all three blocks was rendered.
C14_Witness ==
    /\ pc = "render" /\ rendered # None
    /\ AddedEntries # {} /\ UpdatedPairs # {} /\ RemovedEntries # {}
    /\ rendered[1][1] = Title_Added
    /\ rendered[1][3] = EmptyLine /\ rendered[1][4] = Title_Updated
    /\ rendered[1][6] = EmptyLine /\ rendered[1][7] = Title_Removed

\* The line is the line of the file of the given name.
LineIsFor(line, fn) ==
    /\ Len(line) >= Len(BareLine(fn))
    /\ SubSeq(line, 1, Len(BareLine(fn))) = BareLine(fn)
    /\ Len(line) > Len(BareLine(fn)) => line[Len(BareLine(fn)) + 1] = " "

\* C15: within each block the lines are in the natural order of the file
\* names (case-insensitive, runs of digits by value), and the change list is
\* the same for every order of the two input lists.
C15_NaturalOrder ==
    (pc = "render" /\ rendered # None) =>
        /\ \A title \in {Title_Added, Title_Updated, Title_Removed} :
            \A i \in DOMAIN BlockLines(title) : \A j \in DOMAIN BlockLines(title) :
                \A fi \in RenderNames : \A fj \in RenderNames :
                    (/\ i < j
                     /\ LineIsFor(BlockLines(title)[i], fi)
                     /\ LineIsFor(BlockLines(title)[j], fj))
                        => KeyLess(NatKey(fi), NatKey(fj))
        /\ \A b2 \in Orders(Range(before)) : \A a2 \in Orders(Range(after)) :
                build_file_change_list(b2, a2) = rendered[1]

-----------------------------------------------------------------------------
(* commits.py: build_commit_message.  A template is a sequence of parts,    *)
(* each a literal text or a placeholder $name; the templates and the lines  *)
(* of a message are strs handled as a whole.  The literal texts have no     *)
(* white space at the ends, so that str.strip() leaves them as they are.    *)

Lit(text) == [ph |-> FALSE, text |-> text]
Ph(name) == [ph |-> TRUE, text |-> name]

\* The placeholders a template names.
Placeholders(template) == {template[i].text : i \in {j \in DOMAIN template : template[j].ph}}

\* The str of a sequence of characters.
RECURSIVE Str(_)
Str(chars) == IF chars = <<>> THEN "" ELSE Head(chars) \o Str(Tail(chars))

RECURSIVE Expand(_, _)
Expand(template, fields) ==
    IF template = <<>> THEN ""
    ELSE (IF Head(template).ph
          THEN (IF Head(template).text \in DOMAIN fields
                THEN fields[Head(template).text]
                ELSE "$" \o Head(template).text)
          ELSE Head(template).text) \o Expand(Tail(template), fields)

\* Template(t).safe_substitute(fields): an unknown placeholder stays as it is.
safe_substitute(template, fields) == Some(Expand(template, fields))

\* Template(t).substitute(fields): <<>> for the KeyError of an unknown
\* placeholder.
substitute(template, fields) ==
    IF Placeholders(template) \subseteq DOMAIN fields
    THEN Some(Expand(template, fields))
    ELSE None

DefaultTitle_NoChanges == <<Lit("Data import: no changes")>>
DefaultTitle_Counts ==
    <<Lit("Data import: +"), Ph("added"), Lit(" ~"), Ph("updated"), Lit(" -"), Ph("removed")>>

\* What build_commit_message(before, after, include_file_list=..., title=...,
\* add_body=..., template_fields=...) gives: the lines of the message, or
\* the exception of a template.
build_commit_message(bf, af, include_file_list, title, add_body, template_fields) ==
    LET chg == _diff_entries(bf, af)
        add_n == Len(chg.added)
        upd_n == Len(chg.updated)
        rem_n == Len(chg.removed)
        fields ==
            [name \in DOMAIN template_fields \cup {"added", "updated", "removed", "total"} |->
                CASE name = "added" -> ToString(add_n)
                  [] name = "updated" -> ToString(upd_n)
                  [] name = "removed" -> ToString(rem_n)
                  [] name = "total" -> ToString(add_n + upd_n + rem_n)
                  [] OTHER -> template_fields[name]]
        title_template ==
            IF title = None \/ title[1] = <<>>
            THEN (IF add_n = 0 /\ upd_n = 0 /\ rem_n = 0
                  THEN DefaultTitle_NoChanges ELSE DefaultTitle_Counts)
            ELSE title[1]
        title_text == substitute(title_template, fields)
        has_body == add_body # None /\ add_body[1] # <<>>
        body_text == IF has_body THEN substitute(add_body[1], fields) ELSE None
        change_list == build_file_change_list(bf, af)
    IN  IF title_text = None THEN CallRaised
        ELSE IF has_body /\ body_text = None THEN CallRaised
        ELSE CallReturned(
                <<title_text[1]>>
                \o (IF has_body THEN <<"", body_text[1]>> ELSE <<>>)
                \o (IF include_file_list /\ change_list # <<EmptyLine>>
                    THEN <<"">> \o [i \in DOMAIN change_list |-> Str(change_list[i])]
                    ELSE <<>>))

-----------------------------------------------------------------------------
(* The message component: build_commit_message applied to two entry lists.  *)

MessageEntries ==
    {RenderEntry(Name_a_json, Some("1"), "h1"), RenderEntry(Name_a_json, Some("2"), "h1"),
     RenderEntry(Name_b_json, None, "h1")}

MessageLists == EntryLists(MessageEntries, MaxEntries)

\* The title templates a caller gives: none, '', 'Imported $total changes to
\* $path' (live_import's), one naming the counts, one with an unknown name.
TitleChoices ==
    {None, Some(<<>>),
     Some(<<Lit("Imported "), Ph("total"), Lit(" changes to "), Ph("path")>>),
     Some(<<Ph("added"), Lit("/"), Ph("updated"), Lit("/"), Ph("removed")>>),
     Some(<<Lit("By "), Ph("who")>>)}

BodyChoices ==
    {None, Some(<<Lit("Total: "), Ph("total")>>), Some(<<Lit("From "), Ph("path")>>)}

\* template_fields: a mapping from names to values.
FieldChoices ==
    {<<>>, [name \in {"path"} |-> "data"], [name \in {"path", "added"} |-> "x"]}

InitMessage ==
    /\ pc = "message"
    /\ before \in MessageLists
    /\ after \in MessageLists
    /\ changes = None /\ matched = None
    /\ entries = <<>> /\ disk = None /\ parsed = None
    /\ folder = {} /\ scans = <<>> /\ allowed = None
    /\ rendered = None /\ message = None
    /\ inputs = {} /\ options = None /\ repo = None /\ runs = <<>>
    /\ docs = <<>> /\ extracted = <<>>

\* message = the arguments and the result of build_commit_message(before, after, ...)
BuildCommitMessage ==
    /\ pc = "message"
    /\ message = None
    /\ \E title \in TitleChoices : \E add_body \in BodyChoices :
       \E include_file_list \in BOOLEAN : \E template_fields \in FieldChoices :
            message' = Some([title |-> title, add_body |-> add_body,
                             include_file_list |-> include_file_list,
                             template_fields |-> template_fields,
                             result |-> build_commit_message(before, after, include_file_list,
                                                             title, add_body, template_fields)])
    /\ UNCHANGED <<CmdVars, pc, rendered, DiffVars, CodecVars, ScanVars, JsonVars>>

NextMessage == BuildCommitMessage

SpecMessage == InitMessage /\ [][NextMessage]_vars

-----------------------------------------------------------------------------
(* Claims about the commit message. *)

AddedCount == Cardinality(AddedEntries)
UpdatedCount == Cardinality(UpdatedPairs)
RemovedCount == Cardinality(RemovedEntries)

BlockTitles == {"Added:", "Updated:", "Removed:"}

\* C16: when no title is supplied, the first line of the message is a fixed
\* 'no changes' title if the three counts are zero, and the message then has
\* no Added, Updated or Removed block; otherwise the first line is
\* 'Obelisk import: +<added> ~<updated> -<removed>'.
C16_DefaultTitle ==
    (pc = "message" /\ message # None /\ message[1].title = None
                    /\ ~message[1].result.raised) =>
        IF AddedCount = 0 /\ UpdatedCount = 0 /\ RemovedCount = 0
        THEN Range(message[1].result.entry) \cap BlockTitles = {}
        ELSE message[1].result.entry[1] =
                "Obelisk import: +" \o ToString(AddedCount) \o " ~" \o ToString(UpdatedCount)
                    \o " -" \o ToString(RemovedCount)

\* The value the claim gives a placeholder.
ValueOf(name) ==
    CASE name = "added" -> ToString(AddedCount)
      [] name = "updated" -> ToString(UpdatedCount)
      [] name = "removed" -> ToString(RemovedCount)
      [] name = "total" -> ToString(AddedCount + UpdatedCount + RemovedCount)
      [] OTHER -> message[1].template_fields[name]

\* The template with every placeholder replaced by its value.
RECURSIVE Filled(_)
Filled(template) ==
    IF template = <<>> THEN ""
    ELSE (IF Head(template).ph THEN ValueOf(Head(template).text) ELSE Head(template).text)
            \o Filled(Tail(template))

TitleGiven == message[1].title # None /\ message[1].title[1] # <<>>
BodyGiven == message[1].add_body # None /\ message[1].add_body[1] # <<>>

\* The placeholders of the templates the caller gave.
UsedNames ==
    (IF TitleGiven THEN Placeholders(message[1].title[1]) ELSE {})
    \cup (IF BodyGiven THEN Placeholders(message[1].add_body[1]) ELSE {})

KnownNames == {"added", "updated", "removed", "total"} \cup DOMAIN message[1].template_fields

\* C17: build_commit_message raises, and returns no message, exactly when the
\* title or the body template names a placeholder that is none of added,
\* updated, removed, total and the caller's fields; otherwise the title line
\* and the body are the templates with added, updated, removed and total
\* replaced by the sizes of the diff buckets and their sum, and the other
\* placeholders by the caller's fields.
C17_Placeholders ==
    (pc = "message" /\ message # None) =>
        /\ message[1].result.raised <=> ~(UsedNames \subseteq KnownNames)
        /\ ~message[1].result.raised =>
            /\ TitleGiven => message[1].result.entry[1] = Filled(message[1].title[1])
            /\ BodyGiven =>
                /\ message[1].result.entry[2] = ""
                /\ message[1].result.entry[3] = Filled(message[1].add_body[1])

\* live_import's title was filled in with the total and the caller's path.
C17_Witness ==
    /\ pc = "message" /\ message # None /\ ~message[1].result.raised
    /\ AddedCount = 1 /\ UpdatedCount = 1
    /\ message[1].result.entry[1] = "Imported 2 changes to data"
    /\ BodyGiven /\ message[1].result.entry[3] = "Total: 2"

-----------------------------------------------------------------------------
(* commands/live_import.py, commands/add_files.py, cmd_utils/apply_import.py *)
(* and git.py.  The repository is a record [head, commits, remote, origin]: *)
(* the tree of the last local commit, the number of commits the runs made,  *)
(* the number of them the remote has, and the tree of origin/main.  A tree  *)
(* is the children of the destination folder and its _manifest.json, which  *)
(* is kept apart from the children: its name starts with '_', so no scan    *)
(* reads it (scanner.py:15).  The remote changes by the pushes of the runs  *)
(* only, so fetch and fast_forward find nothing new.  The title and body    *)
(* options are left at their defaults.  A run records its steps: the git    *)
(* subprocesses it ran and the scans, copies and writes it made, the one    *)
(* that failed last.  The environment can make one of the steps of          *)
(* Failures fail in a run: a git subprocess that exits with an error, an    *)
(* I/O error of the first copy2 or of the write of the manifest.            *)

Tree(children, manifest) == [folder |-> children, manifest |-> manifest]

Failures == {"none", "fetch", "merge", "copy", "write_manifest", "push"}

\* The steps a run with the given options can come to, and so can fail at.
FailuresOf(opts) ==
    {"none"}
        \cup (IF opts.skip_pull \/ opts.dry_run THEN {} ELSE {"fetch", "merge"})
        \cup (IF opts.dry_run THEN {} ELSE {"copy", "write_manifest"})
        \cup (IF opts.dry_run \/ opts.skip_pull \/ opts.skip_push THEN {} ELSE {"push"})

\* An is_clean that asks git in a dry run too.
is_clean_asks_git(rp, tree, dry_run) == rp.head = tree

\* git.py: is_clean(repo, dry_run=...)
is_clean(rp, tree, dry_run) == dry_run \/ rp.head = tree

\* A commit_all that reports success when there is nothing to commit.
commit_all_never_fails(rp, tree, dry_run) ==
    IF dry_run \/ rp.head = tree THEN [ok |-> TRUE, repo |-> rp]
    ELSE [ok |-> TRUE, repo |-> [rp EXCEPT !.head = tree, !.commits = @ + 1]]

\* git.py: commit_all(repo, message, dry_run=...): 'git add --all' and 'git
\* commit', which fails when the tree is that of the last commit.
commit_all(rp, tree, dry_run) ==
    IF dry_run THEN [ok |-> TRUE, repo |-> rp]
    ELSE IF rp.head = tree THEN [ok |-> FALSE, repo |-> rp]
    ELSE [ok |-> TRUE, repo |-> [rp EXCEPT !.head = tree, !.commits = @ + 1]]

\* git.py: push(repo, dry_run=...)
push(rp, dry_run) ==
    IF dry_run THEN rp ELSE [rp EXCEPT !.remote = rp.commits, !.origin = rp.head]

\* git.py: reset_hard(repo, dry_run=...) on a clean tree: the branch and the
\* files become those of origin/main.
reset_hard(rp, dry_run) ==
    IF dry_run THEN rp ELSE [rp EXCEPT !.head = rp.origin, !.commits = rp.remote]

\* _collect_allowed_inputs(inputs, allow_all): the files to copy, <<>> in
\* place of them when a file is filtered out and the command exits.
_collect_allowed_inputs_nothing_filtered(files, allow_all) == Some(files)

_collect_allowed_inputs(files, allow_all) ==
    IF \A f \in files : allow_all \/ file_is_allowed(f) THEN Some(files) ELSE None

\* The files the error message of a filtered run lists.
Filtered(files) == {f \in files : ~file_is_allowed(f)}

\* copy2(src, dest_path / src.name) for every allowed file.
CopyInto(children, files) ==
    {c \in children : \A f \in files : f.name # c.name} \cup files

\* What a run of a command did: how it ended ("ok", "exit1" for ctx.exit(1),
\* "crash" for an exception nothing catches), what it said at the end, whether
\* it called commit_all and push, the two entry lists the command held after
\* its scans (<<>> when it ended before it had them), its steps and the files
\* it reported as excluded.
Report(exit, said, commit_called, push_called, bf, af, steps, rejected) ==
    [exit |-> exit, said |-> said, commit_called |-> commit_called,
     push_called |-> push_called, before |-> bf, after |-> af,
     steps |-> steps, rejected |-> rejected]

Outcome(report, tree, rp) == [report |-> report, tree |-> tree, repo |-> rp]

Said_NoChanges == "No manifest changes needed. Skipping commit/push."
Said_Completed == "Live import completed."
Said_Error == "Error"
Said_Excluded == "Error: Some unhandled files are excluded."

\* A run that commits whatever the two scans are.
SkipsCommit_never(before_entries, after_entries) == FALSE

\* live_import.py:156: the run ends before the commit.
SkipsCommit(before_entries, after_entries) == manifest_match(before_entries, after_entries)

\* do_push = (not skip_pull) and (not skip_push)
do_push_despite_skip_pull(skip_pull, skip_push) == ~skip_push

do_push(skip_pull, skip_push) == ~skip_pull /\ ~skip_push

\* A sync that fetches although the tree is dirty.
_sync_repository_unchecked(opts, tree, rp, fails) ==
    IF opts.skip_pull \/ opts.dry_run
    THEN [ok |-> TRUE, steps |-> <<>>, tree |-> tree, repo |-> rp]
    ELSE [ok |-> TRUE, steps |-> <<"status", "fetch", "merge">>, tree |-> tree, repo |-> rp]

\* _sync_repository(repo, dry_run=..., skip_pull=..., git_reset=...)
_sync_repository(opts, tree, rp, fails) ==
    IF opts.skip_pull
    THEN [ok |-> TRUE, steps |-> <<>>, tree |-> tree, repo |-> rp]
    ELSE IF ~is_clean(rp, tree, opts.dry_run)
    THEN [ok |-> FALSE, steps |-> <<"status">>, tree |-> tree, repo |-> rp]
    ELSE IF opts.dry_run
    THEN [ok |-> TRUE, steps |-> <<>>, tree |-> tree, repo |-> rp]
    ELSE IF fails = "fetch"
    THEN [ok |-> FALSE, steps |-> <<"status", "fetch">>, tree |-> tree, repo |-> rp]
    ELSE IF opts.git_reset
    THEN (IF fails = "merge"
          THEN [ok |-> FALSE, steps |-> <<"status", "fetch", "reset">>,
                tree |-> tree, repo |-> rp]
          ELSE [ok |-> TRUE, steps |-> <<"status", "fetch", "reset">>,
                tree |-> rp.origin, repo |-> reset_hard(rp, opts.dry_run)])
    ELSE [ok |-> fails # "merge", steps |-> <<"status", "fetch", "merge">>,
          tree |-> tree, repo |-> rp]

\* live_import(...) from the scans on: message, commit, push.
FinishImport(opts, before_entries, after_entries, tree, rp, steps, fails) ==
    LET pushing == do_push(opts.skip_pull, opts.skip_push)
        commit_msg == build_commit_message(before_entries, after_entries, TRUE,
                          Some(<<Lit("Imported "), Ph("total"), Lit(" changes to "), Ph("path")>>),
                          None, [name \in {"path"} |-> "data"])
        done == commit_all(rp, tree, opts.dry_run)
        commit_steps == IF opts.dry_run THEN steps ELSE steps \o <<"add", "commit">>
        push_steps == IF pushing /\ ~opts.dry_run THEN commit_steps \o <<"push">>
                      ELSE commit_steps
    IN  IF SkipsCommit(before_entries, after_entries)
        THEN Outcome(Report("ok", Said_NoChanges, FALSE, FALSE,
                            Some(before_entries), Some(after_entries), steps, {}), tree, rp)
        ELSE IF commit_msg.raised
        THEN Outcome(Report("crash", Said_Error, FALSE, FALSE,
                            Some(before_entries), Some(after_entries), steps, {}), tree, rp)
        ELSE IF ~done.ok
        THEN Outcome(Report("exit1", Said_Error, TRUE, FALSE,
                            Some(before_entries), Some(after_entries), commit_steps, {}),
                     tree, rp)
        ELSE IF pushing /\ ~opts.dry_run /\ fails = "push"
        THEN Outcome(Report("exit1", Said_Error, TRUE, TRUE,
                            Some(before_entries), Some(after_entries), push_steps, {}),
                     tree, done.repo)
        ELSE Outcome(Report("ok", Said_Completed, TRUE, pushing,
                            Some(before_entries), Some(after_entries), push_steps, {}),
                     tree, IF pushing THEN push(done.repo, opts.dry_run) ELSE done.repo)

\* live_import(repo, dest, inputs, ...) for the orders in which glob yields
\* the children of the destination before and after the copy.
live_import(opts, files, tree, rp, fails, before_listing, after_listing) ==
    LET sync == _sync_repository(opts, tree, rp, fails)
        allowed_files == _collect_allowed_inputs(files, opts.allow_all)
        before_scan == create_manifest_from_folder(before_listing)
        after_scan == create_manifest_from_folder(after_listing)
        copying == ~opts.dry_run /\ allowed_files[1] # {}
        copied == IF copying THEN CopyInto(sync.tree.folder, allowed_files[1])
                  ELSE sync.tree.folder
        steps_before == sync.steps \o <<"scan_before">>
        steps_copy == IF copying THEN steps_before \o <<"copy">> ELSE steps_before
        steps_after == steps_copy \o <<"scan_after">>
        steps_write == IF opts.dry_run THEN steps_after ELSE steps_after \o <<"write_manifest">>
    IN  IF ~sync.ok
        THEN Outcome(Report("exit1", Said_Error, FALSE, FALSE, None, None, sync.steps, {}),
                     sync.tree, sync.repo)
        ELSE IF allowed_files = None
        THEN Outcome(Report("exit1", Said_Excluded, FALSE, FALSE, None, None,
                            sync.steps, Filtered(files)),
                     sync.tree, sync.repo)
        ELSE IF ~before_scan.ok
        THEN Outcome(Report("exit1", Said_Error, FALSE, FALSE, None, None, steps_before, {}),
                     sync.tree, sync.repo)
        ELSE IF copying /\ fails = "copy"
        THEN Outcome(Report("exit1", Said_Error, FALSE, FALSE, None, None, steps_copy, {}),
                     sync.tree, sync.repo)
        ELSE IF ~after_scan.ok
        THEN Outcome(Report("crash", Said_Error, FALSE, FALSE, None, None, steps_after, {}),
                     Tree(copied, sync.tree.manifest), sync.repo)
        ELSE IF ~opts.dry_run /\ fails = "write_manifest"
        THEN Outcome(Report("exit1", Said_Error, FALSE, FALSE, None, None, steps_write, {}),
                     Tree(copied, sync.tree.manifest), sync.repo)
        ELSE FinishImport(opts, before_scan.list, after_scan.list,
                          Tree(copied, IF opts.dry_run THEN sync.tree.manifest
                                       ELSE Some(write_manifest(after_scan.list))),
                          sync.repo, steps_write, fails)

-----------------------------------------------------------------------------
(* The import component: live-import run up to MaxRuns times with the same  *)
(* command line, nothing else touching the repository.                      *)

DestCatalog ==
    {Child(Name_a_json, FALSE, DocV1, {})}

InputCatalog ==
    {Child(Name_a_json, FALSE, DocV2, {}),
     Child(Name_a_json, FALSE, Unreadable, {}),
     Child(Name_c_png, FALSE, PngBytes, {}),
     Child(Name_hidden_underscore, FALSE, DocV1, {})}

InputSets ==
    {S \in SUBSET InputCatalog :
        /\ S # {}
        /\ Cardinality(S) <= 2
        /\ Cardinality({c.name : c \in S}) = Cardinality(S)}

OptionChoices ==
    [dry_run : BOOLEAN, skip_pull : BOOLEAN, skip_push : BOOLEAN, allow_all : BOOLEAN,
     git_reset : BOOLEAN]

\* The repository at the start: in step with the remote, the destination
\* committed as it is or holding files that are not committed.
InitImport ==
    /\ pc = "live_import"
    /\ folder \in SUBSET DestCatalog
    /\ disk = None
    /\ inputs \in InputSets
    /\ options \in {Some(o) : o \in OptionChoices}
    /\ \E committed \in {Tree(folder, disk), Tree({}, None)} :
        repo = Some([head |-> committed, commits |-> 0, remote |-> 0, origin |-> committed])
    /\ runs = <<>>
    /\ before = <<>> /\ after = <<>> /\ changes = None /\ matched = None
    /\ entries = <<>> /\ parsed = None
    /\ scans = <<>> /\ allowed = None
    /\ rendered = None /\ message = None
    /\ docs = <<>> /\ extracted = <<>>

\* The destination when the before scan is made.
SyncedFolder(fails) ==
    _sync_repository(options[1], Tree(folder, disk), repo[1], fails).tree.folder

\* The destination when the after scan is made.
CopiedFolder(fails) ==
    IF \/ options[1].dry_run
       \/ _collect_allowed_inputs(inputs, options[1].allow_all) = None
       \/ fails = "copy"
    THEN SyncedFolder(fails) ELSE CopyInto(SyncedFolder(fails), inputs)

LiveImport ==
    /\ pc = "live_import"
    /\ Len(runs) < MaxRuns
    /\ \E fails \in Failures \cap FailuresOf(options[1]) :
       \E before_listing \in Orders(Glob(SyncedFolder(fails))) :
       \E after_listing \in Orders(Glob(CopiedFolder(fails))) :
       \E out \in {live_import(options[1], inputs, Tree(folder, disk), repo[1],
                               fails, before_listing, after_listing)} :
            /\ folder' = out.tree.folder
            /\ disk' = out.tree.manifest
            /\ repo' = Some(out.repo)
            /\ runs' = Append(runs, out.report)
    /\ UNCHANGED <<pc, inputs, options, entries, parsed, scans, allowed,
                   RenderVars, DiffVars, JsonVars>>

NextImport == LiveImport

SpecImport == InitImport /\ [][NextImport]_vars

-----------------------------------------------------------------------------
(* commands/add_files.py and cmd_utils/apply_import.py: the import without  *)
(* git.  apply_import asks manifest.entries_match whether a JSON input and  *)
(* the entry the destination has under its name differ in more than the     *)
(* version; manifest.py defines no entries_match, so the answer is any      *)
(* boolean.                                                                 *)

Said_AddNoChanges == "No manifest changes needed."
Said_AddCompleted == "Add files completed."

AddFailures == {"none", "copy", "write_manifest"}

\* filetypes/__init__.py: version_only_change_insensitive_types
version_only_change_insensitive_types(ext) ==
    ext \in {<<"j", "s", "o", "n">>, <<"j", "s", "o", "n", "c">>}

\* The values a call of entries_match(existing_entry, prospective_entry) can
\* return.
entries_match == BOOLEAN

\* apply_import.py:47-52 up to the call of entries_match: the input is a
\* JSON file, the before scan has an entry of its name and the handler
\* returns an entry for it.
AsksEntriesMatch(before_entries, src) ==
    LET ext == Lower(LstripDot(Suffix(src.name)))
    IN  /\ version_only_change_insensitive_types(ext)
        /\ \E i \in DOMAIN before_entries : before_entries[i].filename = src.name
        /\ registered_types(ext) # None
        /\ ~HandlerRaises(registered_types(ext)[1], src.content)
        /\ HandlerEntry(registered_types(ext)[1], src.name, src.content) # None

\* apply_import.py:51: handler(src) raises.
ProspectiveRaises(before_entries, src) ==
    LET ext == Lower(LstripDot(Suffix(src.name)))
    IN  /\ version_only_change_insensitive_types(ext)
        /\ \E i \in DOMAIN before_entries : before_entries[i].filename = src.name
        /\ registered_types(ext) # None
        /\ HandlerRaises(registered_types(ext)[1], src.content)

\* The inputs apply_import copies when entries_match answers 'same'.
Copied(before_entries, allowed_files, same) ==
    {src \in Range(allowed_files) : ~(same /\ AsksEntriesMatch(before_entries, src))}

\* apply_import(dest_path, allowed, dry_run=...) followed by the end of
\* add_files.
apply_import(children, manifest, allowed_files, dry_run, same, fails, listing, relisting) ==
    LET before_scan == create_manifest_from_folder(listing)
        after_scan == create_manifest_from_folder(relisting)
        to_copy == Copied(before_scan.list, allowed_files, same)
        copying == ~dry_run /\ to_copy # {}
        copied == IF copying THEN CopyInto(children, to_copy) ELSE children
        steps_copy == IF copying THEN <<"scan_before", "copy">> ELSE <<"scan_before">>
        steps_after == steps_copy \o <<"scan_after">>
        steps_write == IF dry_run THEN steps_after ELSE steps_after \o <<"write_manifest">>
    IN  IF ~before_scan.ok
        THEN Outcome(Report("crash", Said_Error, FALSE, FALSE, None, None,
                            <<"scan_before">>, {}), Tree(children, manifest), None)
        ELSE IF \E src \in Range(allowed_files) : ProspectiveRaises(before_scan.list, src)
        THEN Outcome(Report("crash", Said_Error, FALSE, FALSE, None, None,
                            <<"scan_before">>, {}), Tree(children, manifest), None)
        ELSE IF copying /\ fails = "copy"
        THEN Outcome(Report("crash", Said_Error, FALSE, FALSE, None, None, steps_copy, {}),
                     Tree(children, manifest), None)
        ELSE IF ~after_scan.ok
        THEN Outcome(Report("crash", Said_Error, FALSE, FALSE, None, None, steps_after, {}),
                     Tree(copied, manifest), None)
        ELSE IF ~dry_run /\ fails = "write_manifest"
        THEN Outcome(Report("crash", Said_Error, FALSE, FALSE, None, None, steps_write, {}),
                     Tree(copied, manifest), None)
        ELSE Outcome(Report("ok",
                            IF manifest_match(before_scan.list, after_scan.list)
                            THEN Said_AddNoChanges ELSE Said_AddCompleted,
                            FALSE, FALSE, Some(before_scan.list), Some(after_scan.list),
                            steps_write, {}),
                     Tree(copied, IF dry_run THEN manifest
                                  ELSE Some(write_manifest(after_scan.list))), None)

\* add_files(inputs, dest, allow_all, dry_run)
add_files(opts, input_files, children, manifest, same, fails, before_listing, after_listing) ==
    LET collected == collect_allowed_inputs(input_files, opts.allow_all)
    IN  IF collected.filtered # <<>>
        THEN Outcome(Report("exit1", Said_Excluded, FALSE, FALSE, None, None, <<>>,
                            Range(collected.filtered)),
                     Tree(children, manifest), None)
        ELSE apply_import(children, manifest, collected.allowed, opts.dry_run, same, fails,
                          before_listing, after_listing)

InitAdd ==
    /\ pc = "add_files"
    /\ folder \in SUBSET DestCatalog
    /\ disk = None
    /\ inputs \in InputSets
    /\ options \in {Some([dry_run |-> d, allow_all |-> a]) : d \in BOOLEAN, a \in BOOLEAN}
    /\ repo = None
    /\ runs = <<>>
    /\ before = <<>> /\ after = <<>> /\ changes = None /\ matched = None
    /\ entries = <<>> /\ parsed = None
    /\ scans = <<>> /\ allowed = None
    /\ rendered = None /\ message = None
    /\ docs = <<>> /\ extracted = <<>>

\* The destination when add-files makes its after scan.
AddedFolder(input_files, same, fails, before_listing) ==
    LET collected == collect_allowed_inputs(input_files, options[1].allow_all)
        before_scan == create_manifest_from_folder(before_listing)
    IN  IF \/ options[1].dry_run
           \/ collected.filtered # <<>>
           \/ ~before_scan.ok
           \/ fails = "copy"
           \/ \E src \in Range(collected.allowed) : ProspectiveRaises(before_scan.list, src)
        THEN folder
        ELSE CopyInto(folder, Copied(before_scan.list, collected.allowed, same))

AddFiles ==
    /\ pc = "add_files"
    /\ Len(runs) < MaxRuns
    /\ \E input_files \in Orders(inputs) :
       \E same \in entries_match :
       \E fails \in (IF options[1].dry_run THEN {"none"} ELSE AddFailures) :
       \E before_listing \in Orders(Glob(folder)) :
       \E after_listing \in Orders(Glob(AddedFolder(input_files, same, fails, before_listing))) :
       \E out \in {add_files(options[1], input_files, folder, disk, same, fails,
                             before_listing, after_listing)} :
            /\ folder' = out.tree.folder
            /\ disk' = out.tree.manifest
            /\ runs' = Append(runs, out.report)
    /\ UNCHANGED <<pc, inputs, options, repo, entries, parsed, scans, allowed,
                   RenderVars, DiffVars, JsonVars>>

-----------------------------------------------------------------------------
(* Claims about live-import. *)

LastRun == runs'[Len(runs')]

\* C18: a run of live-import whose before and after scans match
\* (manifest_match) ends successfully without calling commit_all or push,
\* adds no commit and leaves the remote as it was; a run makes a commit or a
\* push only when the scans do not match.
C18_CommitOnlyOnChange ==
    [][(pc = "live_import" /\ runs' # runs) =>
        /\ (LastRun.before # None /\ LastRun.after # None
                /\ manifest_match(LastRun.before[1], LastRun.after[1])) =>
            /\ LastRun.exit = "ok"
            /\ ~LastRun.commit_called /\ ~LastRun.push_called
            /\ repo'[1].commits <= repo[1].commits
            /\ repo'[1].remote = repo[1].remote /\ repo'[1].origin = repo[1].origin
        /\ (LastRun.commit_called \/ LastRun.push_called
                \/ repo'[1].commits > repo[1].commits
                \/ repo'[1].remote # repo[1].remote) =>
            /\ LastRun.before # None /\ LastRun.after # None
            /\ ~manifest_match(LastRun.before[1], LastRun.after[1])]_vars

\* A run whose scans matched and that made no commit, after a run that
\* committed and pushed.
C18_Witness ==
    /\ pc = "live_import" /\ Len(runs) = 2
    /\ runs[1].commit_called /\ runs[1].push_called
    /\ repo[1].commits = 1 /\ repo[1].remote = 1
    /\ runs[2].before # None /\ runs[2].after # None
    /\ runs[2].before[1] # <<>>
    /\ manifest_match(runs[2].before[1], runs[2].after[1])
    /\ runs[2].said = Said_NoChanges

\* C19: when a run of live-import that is not a dry run has ended
\* successfully, the next run with the same inputs finds its before and
\* after scans matching, says that no manifest change is needed, creates no
\* commit and leaves the remote as it was.
C19_ImportIdempotent ==
    [][(pc = "live_import" /\ runs' # runs /\ runs # <<>>
            /\ ~options[1].dry_run /\ runs[Len(runs)].exit = "ok") =>
        /\ LastRun.before # None /\ LastRun.after # None
        /\ manifest_match(LastRun.before[1], LastRun.after[1])
        /\ LastRun.said = Said_NoChanges
        /\ repo'[1].commits = repo[1].commits
        /\ repo'[1].remote = repo[1].remote]_vars

Did(report, step) == \E i \in DOMAIN report.steps : report.steps[i] = step

IsPrefix(p, q) == Len(p) <= Len(q) /\ \A i \in DOMAIN p : p[i] = q[i]

\* The destination holds files the last commit does not.
Dirty == repo[1].head # Tree(folder, disk)

\* C24: a run of live-import that is not a dry run, on a tree that differs
\* from the last commit and without --skip-pull, ends with a failure exit
\* after 'git status' only, with or without --git-reset: nothing is fetched,
\* copied, written, committed or pushed.  With --dry-run or --skip-pull the
\* run does not look at the state of the tree and goes on to its inputs and
\* scans.
C24_DirtyBlocks ==
    [][(pc = "live_import" /\ runs' # runs /\ Dirty) =>
        /\ (~options[1].dry_run /\ ~options[1].skip_pull) =>
            /\ LastRun.exit = "exit1"
            /\ LastRun.steps = <<"status">>
            /\ ~LastRun.commit_called /\ ~LastRun.push_called
            /\ folder' = folder /\ disk' = disk /\ repo' = repo
        /\ (options[1].dry_run \/ options[1].skip_pull) =>
            /\ ~Did(LastRun, "status")
            /\ LastRun.rejected # {} \/ Did(LastRun, "scan_before")]_vars

\* A blocked run with --git-reset on a dirty tree, which is as it was.
C24_Witness ==
    /\ pc = "live_import" /\ Len(runs) = 1
    /\ options[1].git_reset /\ ~options[1].dry_run /\ ~options[1].skip_pull
    /\ Dirty /\ folder # {}
    /\ runs[1].exit = "exit1" /\ runs[1].steps = <<"status">>

\* The commits the branch has when the run comes to its commit.
CommitsBefore == IF Did(LastRun, "reset") THEN repo[1].remote ELSE repo[1].commits

\* C23: a run of live-import pushes only when neither --skip-pull nor
\* --skip-push is given; a run with one of them that is not a dry run and
\* whose scans do not match still calls commit_all, and when it ends
\* successfully the branch has one more commit, which holds the destination
\* as the run left it, and the remote is as it was.
C23_SkipPullNoPush ==
    [][(pc = "live_import" /\ runs' # runs) =>
        /\ (LastRun.push_called \/ Did(LastRun, "push")
                \/ repo'[1].remote # repo[1].remote \/ repo'[1].origin # repo[1].origin) =>
            ~options[1].skip_pull /\ ~options[1].skip_push
        /\ (/\ options[1].skip_pull \/ options[1].skip_push
            /\ ~options[1].dry_run
            /\ LastRun.before # None /\ LastRun.after # None
            /\ ~manifest_match(LastRun.before[1], LastRun.after[1])) =>
            /\ LastRun.commit_called /\ Did(LastRun, "commit")
            /\ repo'[1].head = Tree(folder', disk')
            /\ LastRun.exit = "ok" =>
                /\ repo'[1].commits = CommitsBefore + 1
                /\ LastRun.said = Said_Completed]_vars

\* A run with --skip-pull and without --skip-push that committed and did not
\* push.
C23_Witness ==
    /\ pc = "live_import" /\ Len(runs) = 1
    /\ options[1].skip_pull /\ ~options[1].skip_push /\ ~options[1].dry_run
    /\ runs[1].exit = "ok" /\ runs[1].commit_called /\ ~runs[1].push_called
    /\ repo[1].commits = 1 /\ repo[1].remote = 0
    /\ repo[1].head = Tree(folder, disk)

\* The steps of a run of live-import with the given options in which no step
\* fails and the scans do not match.
SyncSteps(opts) ==
    IF opts.skip_pull THEN <<>>
    ELSE <<"status", "fetch", IF opts.git_reset THEN "reset" ELSE "merge">>

ImportSteps == <<"scan_before", "copy", "scan_after", "write_manifest">>

CommitSteps(opts) ==
    <<"add", "commit">> \o (IF ~opts.skip_pull /\ ~opts.skip_push THEN <<"push">> ELSE <<>>)

AllSteps(opts) == SyncSteps(opts) \o ImportSteps \o CommitSteps(opts)

\* C29: the steps of a run of live-import that is not a dry run are the first
\* steps of: clean check, fetch, fast-forward or hard reset, before scan,
\* copy, after scan, manifest write, git add, git commit, push (the first
\* three left out with --skip-pull, the last unless the run pushes).  A run
\* that ends successfully made all of them, or all up to the manifest write
\* when its scans matched; a run that made not all of them ended with a
\* failure; a run that pushed made a commit before, and a run that committed
\* wrote the manifest of its after scan before.
C29_StepOrder ==
    [][(pc = "live_import" /\ runs' # runs /\ ~options[1].dry_run) =>
        /\ IsPrefix(LastRun.steps, AllSteps(options[1]))
        /\ LastRun.exit = "ok" =>
            \/ LastRun.steps = AllSteps(options[1])
            \/ /\ LastRun.steps = SyncSteps(options[1]) \o ImportSteps
               /\ manifest_match(LastRun.before[1], LastRun.after[1])
        /\ (LastRun.steps # AllSteps(options[1]) /\ LastRun.said # Said_NoChanges) =>
            LastRun.exit \in {"exit1", "crash"}
        /\ Did(LastRun, "push") =>
            /\ Did(LastRun, "commit")
            /\ repo'[1].commits = CommitsBefore + 1
            /\ repo'[1].head = Tree(folder', disk')
        /\ Did(LastRun, "commit") =>
            /\ Did(LastRun, "write_manifest")
            /\ LastRun.after # None
            /\ disk' = Some(write_manifest(LastRun.after[1]))]_vars

\* A run that made every step and pushed, and a run that failed at its
\* commit and did not push.
C29_Witness ==
    /\ pc = "live_import" /\ Len(runs) = 2
    /\ ~options[1].dry_run /\ ~options[1].skip_pull /\ ~options[1].skip_push
    /\ runs[1].steps = AllSteps(options[1]) /\ runs[1].exit = "ok"
    /\ Did(runs[2], "commit") /\ ~Did(runs[2], "push") /\ runs[2].exit = "exit1"

-----------------------------------------------------------------------------
(* commands/update_manifest.py *)

Said_NoUpdates == "No updates necessary to the manifest."
Said_Changes == "Changes detected in the manifest."

\* bool(existing_manifest): None and the empty list are false.
TruthyList(existing_manifest) == existing_manifest # None /\ existing_manifest[1] # <<>>

\* update_manifest(folder_or_manifest, dry_run=...) for the order in which
\* glob yields the children of the folder.
update_manifest(children, manifest, dry_run, listing) ==
    LET existing_manifest == IF manifest # None THEN Some(parse_manifest(manifest[1])) ELSE None
        new_manifest == create_manifest_from_folder(listing)
    IN  IF ~new_manifest.ok
        THEN Outcome(Report("crash", Said_Error, FALSE, FALSE, existing_manifest, None, <<"scan">>, {}),
                     Tree(children, manifest), None)
        ELSE IF TruthyList(existing_manifest)
                /\ manifest_match(existing_manifest[1], new_manifest.list)
        THEN Outcome(Report("ok", Said_NoUpdates, FALSE, FALSE,
                            existing_manifest, Some(new_manifest.list), <<"scan">>, {}),
                     Tree(children, manifest), None)
        ELSE Outcome(Report("ok", Said_Changes, FALSE, FALSE,
                            existing_manifest, Some(new_manifest.list),
                            IF dry_run THEN <<"scan">> ELSE <<"scan", "write_manifest">>, {}),
                     Tree(children, IF dry_run THEN manifest
                                    ELSE Some(write_manifest(new_manifest.list))), None)

-----------------------------------------------------------------------------
(* The update component: update-manifest run up to MaxRuns times on a       *)
(* folder that nothing else touches.                                        *)

\* The manifest file at the start: none, or the one an earlier run wrote
\* when the folder held a.json alone.
EarlierManifests ==
    {None,
     Some(write_manifest(
        create_manifest_from_folder(<<Child(Name_a_json, FALSE, DocV1, {})>>).list))}

InitUpdate ==
    /\ pc = "update_manifest"
    /\ folder \in Folders
    /\ disk \in EarlierManifests
    /\ inputs = {}
    /\ options \in {Some([dry_run |-> b]) : b \in BOOLEAN}
    /\ repo = None
    /\ runs = <<>>
    /\ before = <<>> /\ after = <<>> /\ changes = None /\ matched = None
    /\ entries = <<>> /\ parsed = None
    /\ scans = <<>> /\ allowed = None
    /\ rendered = None /\ message = None
    /\ docs = <<>> /\ extracted = <<>>

UpdateManifest ==
    /\ pc = "update_manifest"
    /\ Len(runs) < MaxRuns
    /\ \E listing \in Orders(Glob(folder)) :
       \E out \in {update_manifest(folder, disk, options[1].dry_run, listing)} :
            /\ disk' = out.tree.manifest
            /\ runs' = Append(runs, out.report)
    /\ UNCHANGED <<pc, folder, inputs, options, repo, entries, parsed, scans, allowed,
                   RenderVars, DiffVars, JsonVars>>

NextUpdate == UpdateManifest

SpecUpdate == InitUpdate /\ [][NextUpdate]_vars

-----------------------------------------------------------------------------
(* Claims about update-manifest. *)

\* C20: when a run of update-manifest has written the manifest of a folder,
\* the next run on the unchanged folder says that no updates are necessary
\* and leaves the manifest file as it is, whatever the folder holds.
C20_UpdateIdempotent ==
    [][(pc = "update_manifest" /\ runs' # runs /\ runs # <<>>
            /\ ~options[1].dry_run
            /\ runs[Len(runs)].exit = "ok" /\ runs[Len(runs)].said = Said_Changes) =>
        /\ LastRun.exit = "ok"
        /\ LastRun.said = Said_NoUpdates
        /\ disk' = disk]_vars

\* C25: a run of update-manifest with --dry-run whose scan does not match
\* the existing manifest says that changes were detected, exits with code 2
\* and leaves the manifest file as it is.
C25_DryRunExitTwo ==
    [][(pc = "update_manifest" /\ runs' # runs /\ options[1].dry_run
            /\ LastRun.before # None /\ LastRun.after # None
            /\ ~manifest_match(LastRun.before[1], LastRun.after[1])) =>
        /\ LastRun.said = Said_Changes
        /\ LastRun.exit = "exit2"
        /\ disk' = disk]_vars

\* C30: a run of update-manifest whose scan matches the list the existing
\* manifest parses to, the two empty lists included, says that no updates
\* are necessary and does not write the manifest; a run writes the manifest
\* only when there is none or the lists do not match.
C30_WritesOnlyOnChange ==
    [][(pc = "update_manifest" /\ runs' # runs) =>
        /\ (LastRun.before # None /\ LastRun.after # None
                /\ manifest_match(LastRun.before[1], LastRun.after[1])) =>
            /\ LastRun.said = Said_NoUpdates
            /\ ~Did(LastRun, "write_manifest")
            /\ disk' = disk
        /\ Did(LastRun, "write_manifest") =>
            \/ LastRun.before = None
            \/ LastRun.after # None
                /\ ~manifest_match(LastRun.before[1], LastRun.after[1])]_vars

-----------------------------------------------------------------------------
(* Further claims about manifest_match. *)

\* The two entries differ in nothing but, possibly, the version.
SameButVersion(x, y) ==
    /\ x.filename = y.filename /\ x.hash = y.hash /\ x.format = y.format
    /\ OptDictEq(x.mod, y.mod) /\ OptDictEq(x.metadata, y.metadata)

\* C26: manifest_match is true for two lists that differ only in the version
\* of entries, and false when an entry is missing or added or when the mod
\* or the metadata of an entry differs.
C26_VersionIgnored ==
    (pc = "diff" /\ matched # None) =>
        /\ (/\ Len(before) = Len(after)
            /\ \A i \in DOMAIN before : SameButVersion(before[i], after[i])) => matched[1]
        /\ (\/ NamesOf(before) # NamesOf(after)
            \/ \E i \in DOMAIN before \cap DOMAIN after :
                /\ before[i].filename = after[i].filename
                /\ \/ ~OptDictEq(before[i].mod, after[i].mod)
                   \/ ~OptDictEq(before[i].metadata, after[i].metadata)) => ~matched[1]

\* C27: manifest_match(A, B) = manifest_match(B, A) for all entry lists, and
\* manifest_match(A, A) is true.
C27_SymmetricReflexive ==
    (pc = "diff" /\ matched # None) =>
        /\ matched[1] = manifest_match(after, before)
        /\ manifest_match(before, before)
        /\ manifest_match(after, after)

\* Two lists of different lengths, one the start of the other, do not match
\* in either order.
C27_Witness ==
    /\ pc = "diff" /\ matched # None
    /\ Len(before) = 1 /\ Len(after) = 2 /\ before[1] = after[1]
    /\ ~matched[1] /\ ~manifest_match(after, before)
    /\ manifest_match(after, after)

-----------------------------------------------------------------------------
(* The three commands together: each behaviour runs one of them up to       *)
(* MaxRuns times with the same command line.                                *)

InitCommands == InitImport \/ InitAdd \/ InitUpdate

NextCommands == LiveImport \/ AddFiles \/ UpdateManifest

SpecCommands == InitCommands /\ [][NextCommands]_vars

\* The steps that only read the destination.
Scans == {"scan", "scan_before", "scan_after"}

\* C21: a run of live-import, add-files or update-manifest with --dry-run
\* makes no step but its scans (no copy, no manifest write, no git
\* subprocess) and leaves the destination folder, its manifest and the
\* repository (HEAD, commits, remote) as they were.
C21_DryRunChangesNothing ==
    [][(runs' # runs /\ options[1].dry_run) =>
        /\ \A i \in DOMAIN LastRun.steps : LastRun.steps[i] \in Scans
        /\ folder' = folder /\ disk' = disk /\ repo' = repo]_vars

\* A dry run of live-import on a dirty tree, with an input the destination
\* does not have, that ended successfully after its scans.
C21_Witness ==
    /\ pc = "live_import" /\ Len(runs) = 1 /\ options[1].dry_run
    /\ ~options[1].skip_pull /\ ~options[1].skip_push /\ options[1].git_reset
    /\ runs[1].steps = <<"scan_before", "scan_after">> /\ runs[1].exit = "ok"
    /\ \E f \in inputs : f \notin folder /\ file_is_allowed(f)
    /\ disk = None
    /\ repo[1].commits = 0 /\ repo[1].remote = 0 /\ repo[1].head # Tree(folder, disk)

\* C22: a run of live-import or add-files whose inputs hold a file the filter
\* does not allow, without --all, ends with a failure exit and has made no
\* scan, copy or manifest write; it has listed every such file, unless it is
\* a run of live-import that failed before in its git steps.  With --all no
\* file is listed as excluded, and a run that comes to write the manifest has
\* copied every input (live-import).
C22_FilterAborts ==
    [][(pc \in {"live_import", "add_files"} /\ runs' # runs) =>
        /\ (Filtered(inputs) # {} /\ ~options[1].allow_all) =>
            /\ LastRun.exit = "exit1"
            /\ ~LastRun.commit_called /\ ~LastRun.push_called
            /\ \A i \in DOMAIN LastRun.steps :
                    LastRun.steps[i] \in {"status", "fetch", "merge", "reset"}
            /\ ~Did(LastRun, "reset") => (folder' = folder /\ disk' = disk /\ repo' = repo)
            /\ \/ LastRun.said = Said_Excluded /\ LastRun.rejected = Filtered(inputs)
               \/ /\ pc = "live_import" /\ ~options[1].skip_pull /\ ~options[1].dry_run
                  /\ LastRun.said = Said_Error /\ LastRun.rejected = {}
                  /\ LastRun.steps # <<>>
        /\ options[1].allow_all =>
            /\ LastRun.rejected = {} /\ LastRun.said # Said_Excluded
            /\ (pc = "live_import" /\ Did(LastRun, "write_manifest")) => inputs \subseteq folder'
        /\ Filtered(inputs) = {} => LastRun.rejected = {} /\ LastRun.said # Said_Excluded]_vars

\* A run of add-files with an allowed and a hidden input that listed the
\* hidden one and left the destination as it was.
C22_Witness ==
    /\ pc = "add_files" /\ Len(runs) = 1 /\ ~options[1].allow_all /\ ~options[1].dry_run
    /\ Cardinality(inputs) = 2 /\ Cardinality(Filtered(inputs)) = 1
    /\ runs[1].exit = "exit1" /\ runs[1].rejected = Filtered(inputs)
    /\ runs[1].steps = <<>>
    /\ folder = {} /\ disk = None

-----------------------------------------------------------------------------
(* json_utils.py: pretty_json, the printer save_as_json writes manifests    *)
(* with.  Texts are sequences of characters, the strings and keys of the    *)
(* values are letters only (json.dumps adds the quotes and escapes          *)
(* nothing), and sort_keys is False as save_as_json passes it.              *)

MaxDepth == 3

\* Values whose strings and keys are sequences of characters.
PInt(x) == [t |-> "int", s |-> <<>>, n |-> x, o |-> <<>>]
PStr(x) == [t |-> "str", s |-> x, n |-> 0, o |-> <<>>]
PList(items) == [t |-> "list", s |-> <<>>, n |-> 0, o |-> items]
PDict(items) == [t |-> "dict", s |-> <<>>, n |-> 0, o |-> items]

Digits == <<"0", "1", "2", "3", "4", "5", "6", "7", "8", "9">>

RECURSIVE DumpsInt(_)
DumpsInt(n) ==
    IF n < 10 THEN <<Digits[n + 1]>> ELSE DumpsInt(n \div 10) \o <<Digits[(n % 10) + 1]>>

\* json.dumps(obj) of a value that is no container, and of a key.
dumps(obj) ==
    CASE obj.t = "null" -> <<"n", "u", "l", "l">>
      [] obj.t = "int" -> DumpsInt(obj.n)
      [] OTHER -> <<"\"">> \o obj.s \o <<"\"">>

\* sep.join(parts)
RECURSIVE JoinWith(_, _)
JoinWith(parts, sep) ==
    IF parts = <<>> THEN <<>>
    ELSE IF Len(parts) = 1 THEN parts[1]
    ELSE parts[1] \o sep \o JoinWith(Tail(parts), sep)

\* indent_str * level
RECURSIVE Times_str(_, _)
Times_str(str, count) == IF count = 0 THEN <<>> ELSE str \o Times_str(str, count - 1)

IsContainer(obj) == obj.t \in {"list", "dict"}

Opening(obj) == IF obj.t = "dict" THEN <<"{">> ELSE <<"[">>
Closing(obj) == IF obj.t = "dict" THEN <<"}">> ELSE <<"]">>

\* f'{json.dumps(key)}: ' before the items of a dict
KeyPart(obj, i) ==
    IF obj.t = "dict" THEN dumps(PStr(obj.o[i].k)) \o <<":", " ">> ELSE <<>>

\* A printer that expands a container whose one line ends at the limit.
RECURSIVE pretty_json_below_limit(_, _, _, _, _)
pretty_json_below_limit(obj, indent_str, max_line, expand_top_level, level) ==
    LET sp == Times_str(indent_str, level)
        items == [i \in DOMAIN obj.o |->
                    KeyPart(obj, i) \o
                    pretty_json_below_limit(obj.o[i].v, indent_str, max_line, FALSE, level + 1)]
        one_line == Opening(obj) \o <<" ">> \o JoinWith(items, <<",", " ">>)
                        \o <<" ">> \o Closing(obj)
    IN  IF ~IsContainer(obj) THEN dumps(obj)
        ELSE IF ~expand_top_level /\ Len(one_line) + Len(sp) < max_line THEN one_line
        ELSE Opening(obj) \o <<"\n">>
                \o JoinWith([i \in DOMAIN items |-> sp \o indent_str \o items[i]], <<",", "\n">>)
                \o <<"\n">> \o sp \o Closing(obj)

\* pretty_json(obj, indent=..., max_line=..., expand_top_level=..., level=...)
RECURSIVE pretty_json(_, _, _, _, _)
pretty_json(obj, indent_str, max_line, expand_top_level, level) ==
    LET sp == Times_str(indent_str, level)
        items == [i \in DOMAIN obj.o |->
                    KeyPart(obj, i) \o
                    pretty_json(obj.o[i].v, indent_str, max_line, FALSE, level + 1)]
        one_line == Opening(obj) \o <<" ">> \o JoinWith(items, <<",", " ">>)
                        \o <<" ">> \o Closing(obj)
    IN  IF ~IsContainer(obj) THEN dumps(obj)
        ELSE IF ~expand_top_level /\ Len(one_line) + Len(sp) <= max_line THEN one_line
        ELSE Opening(obj) \o <<"\n">>
                \o JoinWith([i \in DOMAIN items |-> sp \o indent_str \o items[i]], <<",", "\n">>)
                \o <<"\n">> \o sp \o Closing(obj)

-----------------------------------------------------------------------------
(* The printer component: one value printed with one setting.               *)

PrettyLeaves == {PInt(1), PStr(<<"a", "b">>)}

\* Values nested up to depth containers deep.
RECURSIVE PrettyValues(_)
PrettyValues(depth) ==
    IF depth = 0 THEN PrettyLeaves
    ELSE LET inner == PrettyValues(depth - 1)
         IN  PrettyLeaves \cup {PList(<<>>)}
                \cup {PList(<<KV(<<>>, v)>>) : v \in inner}
                \cup {PList(<<KV(<<>>, v), KV(<<>>, PInt(1))>>) : v \in inner}
                \cup {PDict(<<KV(<<"k">>, v)>>) : v \in inner}

\* indent: a tab as save_as_json passes it, and 2, 4 and 8 spaces.
IndentChoices ==
    {<<"\t">>, <<" ", " ">>, <<" ", " ", " ", " ">>,
     <<" ", " ", " ", " ", " ", " ", " ", " ">>}

MaxLineChoices == {5, 9, 13, 20}

InitPretty ==
    /\ pc = "pretty_json"
    /\ docs \in {<<v>> : v \in PrettyValues(MaxDepth)}
    /\ options \in {Some([indent |-> i, max_line |-> m, expand_top_level |-> e]) :
                        i \in IndentChoices, m \in MaxLineChoices, e \in BOOLEAN}
    /\ rendered = None /\ message = None
    /\ before = <<>> /\ after = <<>> /\ changes = None /\ matched = None
    /\ entries = <<>> /\ disk = None /\ parsed = None
    /\ folder = {} /\ scans = <<>> /\ allowed = None
    /\ extracted = <<>>
    /\ inputs = {} /\ repo = None /\ runs = <<>>

PrettyJson ==
    /\ pc = "pretty_json"
    /\ rendered = None
    /\ rendered' = Some(pretty_json(docs[1], options[1].indent, options[1].max_line,
                                    options[1].expand_top_level, 0))
    /\ UNCHANGED <<pc, message, DiffVars, CodecVars, ScanVars, JsonVars, CmdVars>>

NextPretty == PrettyJson

SpecPretty == InitPretty /\ [][NextPretty]_vars

-----------------------------------------------------------------------------
(* Claims about pretty_json. *)

\* The one-line rendering of a value: '{ "k": v, ... }' / '[ v, ... ]' with
\* every nested container on one line too.
RECURSIVE OneLine(_)
OneLine(obj) ==
    IF ~IsContainer(obj) THEN dumps(obj)
    ELSE Opening(obj) \o <<" ">>
            \o JoinWith([i \in DOMAIN obj.o |-> KeyPart(obj, i) \o OneLine(obj.o[i].v)],
                        <<",", " ">>)
            \o <<" ">> \o Closing(obj)

\* The containers below a value, each with its nesting level.
RECURSIVE NestedContainers(_, _)
NestedContainers(obj, level) ==
    UNION {(IF IsContainer(obj.o[i].v) THEN {<<obj.o[i].v, level + 1>>} ELSE {})
                \cup NestedContainers(obj.o[i].v, level + 1) : i \in DOMAIN obj.o}

OnOneLine(text) == \A i \in DOMAIN text : text[i] # "\n"

Occurs(part, text) ==
    \E i \in 1..(Len(text) - Len(part) + 1) : SubSeq(text, i, i + Len(part) - 1) = part

\* The text the printer gives a container at a nesting level.
RenderingAt(obj, level) ==
    pretty_json(obj, options[1].indent, options[1].max_line, FALSE, level)

\* The width rule for a container at a level: on one line exactly when its
\* one-line rendering and the indentation prefix fit in max_line.
FollowsWidthRule(obj, level) ==
    LET fits == Len(OneLine(obj)) + level * Len(options[1].indent) <= options[1].max_line
    IN  /\ fits => RenderingAt(obj, level) = OneLine(obj)
        /\ ~fits => ~OnOneLine(RenderingAt(obj, level))

\* The printed text holds the rendering of every nested container, and each
\* follows the width rule; the outermost container is expanded when
\* expand_top_level is set and follows the rule when it is not.
WidthRuleHolds ==
    /\ \A c \in NestedContainers(docs[1], 0) :
            /\ Occurs(RenderingAt(c[1], c[2]), rendered[1])
            /\ FollowsWidthRule(c[1], c[2])
    /\ IsContainer(docs[1]) =>
            IF options[1].expand_top_level
            THEN ~OnOneLine(rendered[1]) /\ rendered[1][2] = "\n"
            ELSE rendered[1] = RenderingAt(docs[1], 0) /\ FollowsWidthRule(docs[1], 0)

\* C28 as stated: the width rule holds for every indentation.
C28_WidthRuleAnyIndent ==
    (pc = "pretty_json" /\ rendered # None) => WidthRuleHolds

\* C28: with an indentation unit of at most four characters the printer
\* renders a container that is not the outermost on one line exactly when its
\* one-line rendering and its indentation prefix are at most max_line long;
\* with expand_top_level the outermost container is expanded whatever its
\* width, and its nested containers follow the width rule.
C28_WidthRule ==
    (pc = "pretty_json" /\ rendered # None /\ Len(options[1].indent) <= 4) => WidthRuleHolds

\* A manifest-like print (tab, outermost expanded) with a nested container
\* whose one line with its prefix ends at the limit and is kept on one line.
C28_Witness ==
    /\ pc = "pretty_json" /\ rendered # None
    /\ options[1].indent = <<"\t">> /\ options[1].expand_top_level
    /\ ~OnOneLine(rendered[1])
    /\ \E c \in NestedContainers(docs[1], 0) :
            /\ Len(OneLine(c[1])) + c[2] = options[1].max_line
            /\ OnOneLine(RenderingAt(c[1], c[2]))
            /\ Occurs(OneLine(c[1]), rendered[1])

====
